---- MODULE Spec2Model ----
(***************************************************************************)
(* A model of gitui's asynchronous job latches (asyncgit AsyncStatus and   *)
(* AsyncPushTags) and of the TextArea line editor of the text input        *)
(* component.  Every latch operation is split at the points where another  *)
(* thread can observe or change the shared state: one action per atomic    *)
(* load/store or per mutex section.  The model also covers the hook        *)
(* resolver and hook runner of git2-hooks.                                 *)
(***************************************************************************)
EXTENDS Integers, Sequences, FiniteSets, TLC

(***************************************************************************)
(* Bounds of the exploration.                                              *)
(***************************************************************************)
\* threads that may call AsyncStatus::fetch (it takes &self)
NumCallers == 2
\* status jobs spawned in one run (this also caps the generation counter)
MaxStatusJobs == 2

Callers == 1..NumCallers
\* two StatusParams values: calls with equal and with different parameters
Params == {1, 2}
StatusJobs == 1..MaxStatusJobs

\* push-tags jobs started in one run
MaxPushJobs == 2
\* progress messages the library sends during one push
MaxProgress == 2

PushJobs == 1..MaxPushJobs
\* two remotes: requests with equal and with different parameters
Remotes == {1, 2}

\* characters in the TextArea buffer, lines of the buffer
MaxChars == 3
MaxLines == 3
\* the text input: chars and lines of its buffer that keys may reach, and
\* the longest text handed to set_text, in chars
MaxInputChars == 2
MaxInputLines == 2
MaxSetText == 1
\* largest viewport height a draw call reports
MaxHeight == 2
\* length of the strings typed in the round-trip specification
MaxStr == 4
\* ref updates given to one hooks_pre_push call
MaxUpdates == 2
\* commit pipeline: the commits made
MaxCommits == 2
\* revwalk: the commits of the repository
MaxRevs == 4
\* get_status: the items the status iteration yields
MaxItems == 3
\* commit helpers: the seconds a helper runs, the runs started
MaxElapsed == 32
MaxRuns == 2
\* hook runner: the timeout (ms), the longest sleep overhead (ms), the
\* polls made once no time is left, the bytes a hook writes, the bytes a
\* pipe holds
MaxTimeout == 12
MaxLongTimeout == 300
MaxOverhead == 1
MaxAttempt == 6
MaxOut == 2
PipeCap == 1

\* The characters typed, as their UTF-8 encodings: 'a' (one byte) and
\* U+00E9 (two bytes).
Alphabet == {<<97>>, <<195, 169>>}
\* line feed
LF == 10

\* Option::None of a cached result, Status::default() of `last`, and the Err
\* outcome of a job.  The Status a job computes is tagged by the job's id,
\* so that the results of different jobs are never confused.
None == 0

VARIABLES
    \* which latch object the run exercises ("status" or "push_tags")
    latch,
    \* ---- AsyncStatus (asyncgit/src/status.rs) ----
    pending,      \* AtomicUsize
    generation,   \* AtomicU64
    current,      \* Mutex<Request<u64, Status>>: [hash, val]
    last,         \* Mutex<Status>
    st_call,      \* per caller thread: position inside fetch and its locals
    st_ret,       \* the fetch call that returned last and what it did
    st_jobs,      \* per spawned rayon job: position and locals of the closure
    st_notes,     \* AsyncGitNotification::Status sent, in order (job ids)
    st_writes,    \* jobs that stored into `last`, in order
    \* ---- AsyncPushTags (asyncgit/src/push_tags.rs) ----
    state,        \* Mutex<Option<PushState>>: <<>> or <<remote>>
    last_result,  \* Mutex<Option<String>>: <<>> or <<error of job j>>
    progress,     \* Mutex<Option<PushTagsProgress>>: <<>> or <<job, n>>
    pt_jobs,      \* per spawned worker thread: worker, relay, library channel
    pt_notes,     \* AsyncNotification::PushTags sent, in order: <<job, kind>>
    pt_ret,       \* what the last request call returned, and whether it
                  \* started a worker
    pt_tick,      \* flips at every request call
    \* ---- TextArea (src/components/textinput.rs) ----
    lines,          \* Vec<String>: a sequence of byte sequences
    cursor,         \* (row, column), 0-based
    visual_height,  \* scroll.get_visual_height()
    rt_s,           \* round trip: the string to type, a sequence of chars
    rt_i,           \* round trip: how many of its chars have been typed
    \* ---- git2-hooks (git2-hooks/src/lib.rs, hookspath.rs) ----
    hooks_path,   \* config core.hooksPath: <<>> (unset) or a path
    other_paths,  \* the extra search paths given by the caller
    bare,         \* the repository is bare (no work tree)
    fs,           \* per directory: what the hook file in it is
    msg,          \* the commit message of the caller (&mut String)
    temp_file,    \* the message file: <<>> (absent) or <<[path, content]>>
    hk_fn,        \* the hooks_* function called last
    hk_spawn,     \* the processes that call spawned: program, args, stdin
    hk_ret,       \* the HookResult that call returned
    timeout,      \* run_hook_with_timeout_os_str: Option<Duration>
    run_pc,       \* where run_hook_with_timeout_os_str is
    timer,        \* the backoff loop: elapsed time, attempt, time slept
    child,        \* the hook process: alive, exit status, and todo, the
                  \* writes its script still makes before it exits
    bg,           \* a background process of the hook's process group
    pipes,        \* the bytes written to the stdout and stderr pipes
    \* ---- CommitPopup (src/popups/commit.rs) ----
    verify,       \* self.verify: run the hooks at the next commit
    history,      \* the commits of the repository: their messages, in order
    queue,        \* the events the last commit_with_msg call pushed
    cm_call,      \* the last commit_with_msg call: verify and msg at entry
    cm_steps,     \* the steps that call executed, in order
    cm_ret,       \* what that call returned
    \* ---- revwalk (asyncgit/src/sync/revwalk.rs) ----
    rw_parents,   \* the repository: the parents of each commit
    rw_commits,   \* is_continuous: the commits argument
    rw_walk,      \* the commits the revwalk yielded to take()
    rw_ret,       \* what is_continuous returned
    \* ---- get_status (asyncgit/src/sync/status.rs) ----
    gs_type,      \* the status_type argument
    gs_items,     \* the items the status iteration yields, in its order
    gs_ret,       \* what get_status returned
    \* ---- commit helpers (src/popups/commit.rs, src/commit_helpers.rs) ----
    commit_helpers,  \* the configured helpers: their timeout_secs
    helper_state,    \* self.helper_state
    helper_receiver, \* self.helper_receiver: <<>> or the channel's content
    input_text,      \* self.input: the generated messages it holds, each
                     \* as the number of the thread that produced it
    hp_threads,      \* the helper threads: where each is, and what became
                     \* of the Receiver of its channel
    hp_polled,       \* the last step was a call of update()
    \* TextInputComponent (src/components/textinput.rs)
    ti_msg,          \* msg: OnceCell<String>, <<>> when the cell is empty
    ti_shown,        \* textarea.is_some(); lines and cursor are its TextArea
    ti_ret           \* what the last call of get_text() returned

varsStatus == <<pending, generation, current, last, st_call, st_ret,
                st_jobs, st_notes, st_writes>>

varsPushTags == <<state, last_result, progress, pt_jobs, pt_notes, pt_ret,
                  pt_tick>>

varsTextArea == <<lines, cursor, visual_height, rt_s, rt_i>>

varsRun == <<timeout, run_pc, timer, child, bg, pipes>>

varsHooks == <<hooks_path, other_paths, bare, fs, msg, temp_file, hk_fn,
               hk_spawn, hk_ret, varsRun>>

varsCommit == <<verify, history, queue, cm_call, cm_steps, cm_ret>>

varsRevwalk == <<rw_parents, rw_commits, rw_walk, rw_ret>>

varsGetStatus == <<gs_type, gs_items, gs_ret>>

varsHelper == <<commit_helpers, helper_state, helper_receiver, input_text,
               hp_threads, hp_polled>>

varsTextInput == <<ti_msg, ti_shown, ti_ret>>

varsSync == <<varsRevwalk, varsGetStatus, varsHelper, varsTextInput>>

vars == <<latch, varsStatus, varsPushTags, varsTextArea, varsHooks,
          varsCommit, varsSync>>

\* what a step of one component leaves alone
notStatus == <<varsSync, latch, varsPushTags, varsTextArea, varsHooks, varsCommit>>
notPushTags == <<varsSync, latch, varsStatus, varsTextArea, varsHooks, varsCommit>>
notTextArea == <<varsSync, latch, varsStatus, varsPushTags, varsHooks, varsCommit>>
notHooks == <<varsSync, latch, varsStatus, varsPushTags, varsTextArea, varsCommit>>
notCommit == <<varsSync, latch, varsStatus, varsPushTags, varsTextArea>>
notRevwalk == <<latch, varsStatus, varsPushTags, varsTextArea, varsHooks,
               varsCommit, varsGetStatus, varsHelper, varsTextInput>>
notGetStatus == <<latch, varsStatus, varsPushTags, varsTextArea, varsHooks,
                 varsCommit, varsRevwalk, varsHelper, varsTextInput>>
notHelper == <<latch, varsStatus, varsPushTags, varsTextArea, varsHooks,
              varsCommit, varsRevwalk, varsGetStatus, varsTextInput>>
notTextInput == <<latch, varsStatus, varsPushTags, varsHooks, varsCommit,
                 varsRevwalk, varsGetStatus, varsHelper, visual_height,
                 rt_s, rt_i>>

(***************************************************************************)
(* AsyncStatus                                                             *)
(***************************************************************************)

\* hash(&(params, generation)): modelled as collision free and different
\* from the initial fingerprint 0 of Request(0, None).
hash(p, g) == g * Cardinality(Params) + p

\* st_call[t].seen / st_ret[t].seen: the jobs that had completed when the
\* call read the pending counter (history, for the claims about "the next
\* fetch after a job has completed").
IdleCall == [pc |-> "idle", params |-> 0, hash |-> 0, seen |-> {}]
NoRet == [kind |-> "none", params |-> 0, val |-> None, hash |-> 0,
          seen |-> {}]
FreeJob == [pc |-> "free", params |-> 0, hash |-> 0, out |-> None]

\* AsyncStatus::new
InitStatus ==
    /\ pending = 0
    /\ generation = 0
    /\ current = [hash |-> 0, val |-> None]
    /\ last = None
    /\ st_call = [t \in Callers |-> IdleCall]
    /\ st_ret = NoRet
    /\ st_jobs = [j \in StatusJobs |-> FreeJob]
    /\ st_notes = <<>>
    /\ st_writes = <<>>

Spawned == {j \in StatusJobs : st_jobs[j].pc # "free"}
\* jobs whose closure has run to its end of the pending bookkeeping
Completed == {j \in StatusJobs : st_jobs[j].pc \in {"send", "done"}}
InCall == {t \in Callers : st_call[t].pc # "idle"}

\* AsyncStatus::is_pending
is_pending == pending > 0

\* fetch, lines 88-91: the pending check
fetch_is_pending(t, p) ==
    /\ st_call[t].pc = "idle"
    /\ IF is_pending
       THEN /\ st_ret' = [kind |-> "blocked", params |-> p, val |-> None,
                        hash |-> 0, seen |-> Completed]
            /\ UNCHANGED st_call
       ELSE \* every call in progress can still get a job slot
            /\ Cardinality(Spawned) + Cardinality(InCall) < MaxStatusJobs
            /\ st_call' = [st_call EXCEPT ![t] =
                    [pc |-> "gen", params |-> p, hash |-> 0,
                     seen |-> Completed]]
            /\ UNCHANGED st_ret
    /\ UNCHANGED <<pending, generation, current, last, st_jobs, st_notes,
                   st_writes>>
    /\ UNCHANGED notStatus

\* fetch, lines 93-94: load the generation and hash the request
fetch_load_generation(t) ==
    /\ st_call[t].pc = "gen"
    /\ st_call' = [st_call EXCEPT
            ![t].pc = "lock",
            ![t].hash = hash(st_call[t].params, generation)]
    /\ UNCHANGED <<pending, generation, current, last, st_ret, st_jobs,
                   st_notes, st_writes>>
    /\ UNCHANGED notStatus

\* fetch, lines 103-112: the section under the `current` mutex
fetch_lock_current(t) ==
    /\ st_call[t].pc = "lock"
    /\ IF current.hash = st_call[t].hash
       THEN /\ st_ret' = [kind |-> "cache", params |-> st_call[t].params,
                        val |-> current.val, hash |-> st_call[t].hash,
                        seen |-> st_call[t].seen]
            /\ st_call' = [st_call EXCEPT ![t] = IdleCall]
            /\ UNCHANGED current
       ELSE /\ current' = [hash |-> st_call[t].hash, val |-> None]
            /\ st_call' = [st_call EXCEPT ![t].pc = "spawn"]
            /\ UNCHANGED st_ret
    /\ UNCHANGED <<pending, generation, last, st_jobs, st_notes, st_writes>>
    /\ UNCHANGED notStatus

\* fetch, lines 123-146: pending.fetch_add(1), rayon_core::spawn, Ok(None)
fetch_spawn(t) ==
    /\ st_call[t].pc = "spawn"
    /\ \E j \in StatusJobs :
        /\ st_jobs[j].pc = "free"
        /\ \A k \in StatusJobs : k < j => st_jobs[k].pc # "free"
        /\ st_jobs' = [st_jobs EXCEPT ![j] =
                [pc |-> "run", params |-> st_call[t].params,
                 hash |-> st_call[t].hash, out |-> None]]
        /\ st_ret' = [kind |-> "spawned", params |-> st_call[t].params,
                      val |-> None, hash |-> st_call[t].hash,
                      seen |-> st_call[t].seen]
    /\ pending' = pending + 1
    /\ st_call' = [st_call EXCEPT ![t] = IdleCall]
    /\ UNCHANGED <<generation, current, last, st_notes, st_writes>>
    /\ UNCHANGED notStatus

\* fetch_helper, line 157: get_status returns Ok(res) or, with `?`, leaves
\* fetch_helper with the error, which the closure logs (lines 126-135)
worker_get_status(j, ok) ==
    /\ st_jobs[j].pc = "run"
    /\ st_jobs' = [st_jobs EXCEPT ![j].out = IF ok THEN j ELSE None,
                                  ![j].pc = IF ok THEN "cur" ELSE "gen"]
    /\ UNCHANGED <<pending, generation, current, last, st_call, st_ret,
                   st_notes, st_writes>>
    /\ UNCHANGED notStatus

\* (mutation) the result is stored without comparing the fingerprints
fetch_helper_current_unchecked(j) ==
    /\ st_jobs[j].pc = "cur"
    /\ current' = [current EXCEPT !.val = st_jobs[j].out]
    /\ st_jobs' = [st_jobs EXCEPT ![j].pc = "last"]
    /\ UNCHANGED <<pending, generation, last, st_call, st_ret, st_notes,
                   st_writes>>
    /\ UNCHANGED notStatus

\* fetch_helper, lines 162-167: store into the cache slot if still current
fetch_helper_current(j) ==
    /\ st_jobs[j].pc = "cur"
    /\ current' = IF current.hash = st_jobs[j].hash
                  THEN [current EXCEPT !.val = st_jobs[j].out]
                  ELSE current
    /\ st_jobs' = [st_jobs EXCEPT ![j].pc = "last"]
    /\ UNCHANGED <<pending, generation, last, st_call, st_ret, st_notes,
                   st_writes>>
    /\ UNCHANGED notStatus

\* fetch_helper, lines 169-172: store into `last`
fetch_helper_last(j) ==
    /\ st_jobs[j].pc = "last"
    /\ last' = st_jobs[j].out
    /\ st_writes' = Append(st_writes, j)
    /\ st_jobs' = [st_jobs EXCEPT ![j].pc = "gen"]
    /\ UNCHANGED <<pending, generation, current, st_call, st_ret, st_notes>>
    /\ UNCHANGED notStatus

\* (mutation) the closure does not increment the generation
worker_generation_skipped(j) ==
    /\ st_jobs[j].pc = "gen"
    /\ st_jobs' = [st_jobs EXCEPT ![j].pc = "dec"]
    /\ UNCHANGED <<pending, generation, current, last, st_call, st_ret,
                   st_notes, st_writes>>
    /\ UNCHANGED notStatus

\* worker closure, line 138: arc_generation.fetch_add(1)
worker_generation(j) ==
    /\ st_jobs[j].pc = "gen"
    /\ generation' = generation + 1
    /\ st_jobs' = [st_jobs EXCEPT ![j].pc = "dec"]
    /\ UNCHANGED <<pending, current, last, st_call, st_ret, st_notes,
                   st_writes>>
    /\ UNCHANGED notStatus

\* (mutation) the closure notifies without decrementing the pending counter
worker_pending_forgotten(j) ==
    /\ st_jobs[j].pc = "dec"
    /\ st_jobs' = [st_jobs EXCEPT ![j].pc = "send"]
    /\ UNCHANGED <<pending, generation, current, last, st_call, st_ret,
                   st_notes, st_writes>>
    /\ UNCHANGED notStatus

\* worker closure, line 139: arc_pending.fetch_sub(1)
worker_pending(j) ==
    /\ st_jobs[j].pc = "dec"
    /\ pending' = pending - 1
    /\ st_jobs' = [st_jobs EXCEPT ![j].pc = "send"]
    /\ UNCHANGED <<generation, current, last, st_call, st_ret, st_notes,
                   st_writes>>
    /\ UNCHANGED notStatus

\* worker closure, lines 141-143: sender.send(AsyncGitNotification::Status)
worker_send(j) ==
    /\ st_jobs[j].pc = "send"
    /\ st_notes' = Append(st_notes, j)
    /\ st_jobs' = [st_jobs EXCEPT ![j].pc = "done"]
    /\ UNCHANGED <<pending, generation, current, last, st_call, st_ret,
                   st_writes>>
    /\ UNCHANGED notStatus

NextStatus ==
    \/ \E t \in Callers, p \in Params : fetch_is_pending(t, p)
    \/ \E t \in Callers : fetch_load_generation(t)
    \/ \E t \in Callers : fetch_lock_current(t)
    \/ \E t \in Callers : fetch_spawn(t)
    \/ \E j \in StatusJobs, ok \in BOOLEAN : worker_get_status(j, ok)
    \/ \E j \in StatusJobs : fetch_helper_current(j)
    \/ \E j \in StatusJobs : fetch_helper_last(j)
    \/ \E j \in StatusJobs : worker_generation(j)
    \/ \E j \in StatusJobs : worker_pending(j)
    \/ \E j \in StatusJobs : worker_send(j)

(***************************************************************************)
(* AsyncPushTags                                                           *)
(***************************************************************************)

FreePush == [wpc |-> "free", rpc |-> "free", ok |-> TRUE, sent |-> 0,
             queue |-> <<>>]

\* AsyncPushTags::new
InitPushTags ==
    /\ state = <<>>
    /\ last_result = <<>>
    /\ progress = <<>>
    /\ pt_jobs = [j \in PushJobs |-> FreePush]
    /\ pt_notes = <<>>
    /\ pt_ret = [val |-> "none", started |-> FALSE]
    /\ pt_tick = FALSE

\* AsyncPushTags::is_pending
push_is_pending == state # <<>>

\* (mutation) request without the pending check: set_request refuses with
\* Err("pending request") when a request is stored
request_unchecked(remote) ==
    /\ pt_tick' = ~pt_tick
    /\ IF push_is_pending
       THEN /\ pt_ret' = [val |-> "Err", started |-> FALSE]
            /\ UNCHANGED <<state, last_result, progress, pt_jobs, pt_notes>>
       ELSE /\ pt_ret' = [val |-> "Ok", started |-> TRUE]
            /\ \E j \in PushJobs :
                /\ pt_jobs[j].wpc = "free"
                /\ \A k \in PushJobs : k < j => pt_jobs[k].wpc # "free"
                /\ pt_jobs' = [pt_jobs EXCEPT ![j].wpc = "start"]
            /\ state' = <<remote>>
            /\ progress' = <<>>
            /\ UNCHANGED <<last_result, pt_notes>>
    /\ UNCHANGED notPushTags

\* AsyncPushTags::request (&mut self: one caller at a time): the pending
\* check, set_request, set_progress(None) and thread::spawn
request(remote) ==
    /\ pt_tick' = ~pt_tick
    /\ pt_ret' = [val |-> "Ok", started |-> ~push_is_pending]
    /\ IF push_is_pending
       THEN UNCHANGED <<state, last_result, progress, pt_jobs, pt_notes>>
       ELSE /\ \E j \in PushJobs :
                /\ pt_jobs[j].wpc = "free"
                /\ \A k \in PushJobs : k < j => pt_jobs[k].wpc # "free"
                /\ pt_jobs' = [pt_jobs EXCEPT ![j].wpc = "start"]
            /\ state' = <<remote>>
            /\ progress' = <<>>
            /\ UNCHANGED <<last_result, pt_notes>>
    /\ UNCHANGED notPushTags

\* worker closure, lines 83-90: the progress channel and the relay thread
worker_spawn_receiver(j) ==
    /\ pt_jobs[j].wpc = "start"
    /\ pt_jobs' = [pt_jobs EXCEPT ![j].wpc = "lib", ![j].rpc = "run"]
    /\ UNCHANGED <<state, last_result, progress, pt_notes, pt_ret, pt_tick>>
    /\ UNCHANGED notPushTags

\* push_tags (the library call of lines 92-97) reports progress
push_tags_progress(j) ==
    /\ pt_jobs[j].wpc = "lib"
    /\ pt_jobs[j].sent < MaxProgress
    /\ pt_jobs' = [pt_jobs EXCEPT
            ![j].sent = @ + 1,
            ![j].queue = Append(@, <<j, pt_jobs[j].sent + 1>>)]
    /\ UNCHANGED <<state, last_result, progress, pt_notes, pt_ret, pt_tick>>
    /\ UNCHANGED notPushTags

\* push_tags returns Ok(()) or Err; the progress sender it owned is dropped
push_tags_return(j, ok) ==
    /\ pt_jobs[j].wpc = "lib"
    /\ pt_jobs' = [pt_jobs EXCEPT ![j].wpc = "join", ![j].ok = ok,
                                  ![j].sent = 0]
    /\ UNCHANGED <<state, last_result, progress, pt_notes, pt_ret, pt_tick>>
    /\ UNCHANGED notPushTags

\* push_tags panics: the worker thread unwinds and ends, dropping the sender
push_tags_panic(j) ==
    /\ pt_jobs[j].wpc = "lib"
    /\ pt_jobs' = [pt_jobs EXCEPT ![j].wpc = "panicked", ![j].sent = 0]
    /\ UNCHANGED <<state, last_result, progress, pt_notes, pt_ret, pt_tick>>
    /\ UNCHANGED notPushTags

\* relay thread: a received message overwrites the progress slot
relay_set_progress(j) ==
    /\ pt_jobs[j].rpc = "run"
    /\ pt_jobs[j].queue # <<>>
    /\ progress' = Head(pt_jobs[j].queue)
    /\ pt_jobs' = [pt_jobs EXCEPT ![j].rpc = "notify", ![j].queue = Tail(@)]
    /\ UNCHANGED <<state, last_result, pt_notes, pt_ret, pt_tick>>
    /\ UNCHANGED notPushTags

\* relay thread: one notification after each received message
relay_notify(j) ==
    /\ pt_jobs[j].rpc = "notify"
    /\ pt_notes' = Append(pt_notes, <<j, "progress">>)
    /\ pt_jobs' = [pt_jobs EXCEPT ![j].rpc = "run"]
    /\ UNCHANGED <<state, last_result, progress, pt_ret, pt_tick>>
    /\ UNCHANGED notPushTags

\* relay thread: the library channel is closed and drained
relay_exit(j) ==
    /\ pt_jobs[j].rpc = "run"
    /\ pt_jobs[j].queue = <<>>
    /\ pt_jobs[j].wpc \notin {"start", "lib"}
    /\ pt_jobs' = [pt_jobs EXCEPT ![j].rpc = "exited"]
    /\ UNCHANGED <<state, last_result, progress, pt_notes, pt_ret, pt_tick>>
    /\ UNCHANGED notPushTags

\* (mutation) the worker goes on without joining the relay thread
worker_join_detached(j) ==
    /\ pt_jobs[j].wpc = "join"
    /\ pt_jobs' = [pt_jobs EXCEPT ![j].wpc = "result"]
    /\ UNCHANGED <<state, last_result, progress, pt_notes, pt_ret, pt_tick>>
    /\ UNCHANGED notPushTags

\* worker closure, line 99: handle.join()
worker_join(j) ==
    /\ pt_jobs[j].wpc = "join"
    /\ pt_jobs[j].rpc = "exited"
    /\ pt_jobs' = [pt_jobs EXCEPT ![j].wpc = "result"]
    /\ UNCHANGED <<state, last_result, progress, pt_notes, pt_ret, pt_tick>>
    /\ UNCHANGED notPushTags

\* (mutation) set_result drops the error
set_result_dropped(j) ==
    /\ pt_jobs[j].wpc = "result"
    /\ last_result' = <<>>
    /\ pt_jobs' = [pt_jobs EXCEPT ![j].wpc = "clear"]
    /\ UNCHANGED <<state, progress, pt_notes, pt_ret, pt_tick>>
    /\ UNCHANGED notPushTags

\* AsyncPushTags::set_result (line 101)
set_result(j) ==
    /\ pt_jobs[j].wpc = "result"
    /\ last_result' = IF pt_jobs[j].ok THEN <<>> ELSE <<j>>
    /\ pt_jobs' = [pt_jobs EXCEPT ![j].wpc = "clear"]
    /\ UNCHANGED <<state, progress, pt_notes, pt_ret, pt_tick>>
    /\ UNCHANGED notPushTags

\* AsyncPushTags::clear_request (line 103)
clear_request(j) ==
    /\ pt_jobs[j].wpc = "clear"
    /\ state' = <<>>
    /\ pt_jobs' = [pt_jobs EXCEPT ![j].wpc = "notify"]
    /\ UNCHANGED <<last_result, progress, pt_notes, pt_ret, pt_tick>>
    /\ UNCHANGED notPushTags

\* worker closure, lines 105-107: sender.send(AsyncNotification::PushTags)
push_worker_send(j) ==
    /\ pt_jobs[j].wpc = "notify"
    /\ pt_notes' = Append(pt_notes, <<j, "done">>)
    /\ pt_jobs' = [pt_jobs EXCEPT ![j].wpc = "done"]
    /\ UNCHANGED <<state, last_result, progress, pt_ret, pt_tick>>
    /\ UNCHANGED notPushTags

NextPushTags ==
    \/ \E r \in Remotes : request(r)
    \/ \E j \in PushJobs : worker_spawn_receiver(j)
    \/ \E j \in PushJobs : push_tags_progress(j)
    \/ \E j \in PushJobs, ok \in BOOLEAN : push_tags_return(j, ok)
    \/ \E j \in PushJobs : push_tags_panic(j)
    \/ \E j \in PushJobs : relay_set_progress(j)
    \/ \E j \in PushJobs : relay_notify(j)
    \/ \E j \in PushJobs : relay_exit(j)
    \/ \E j \in PushJobs : worker_join(j)
    \/ \E j \in PushJobs : set_result(j)
    \/ \E j \in PushJobs : clear_request(j)
    \/ \E j \in PushJobs : push_worker_send(j)

(***************************************************************************)
(* Rust String (UTF-8) primitives used by TextArea.  A String is its byte  *)
(* sequence; byte offsets are 0-based as in Rust.                          *)
(***************************************************************************)

min(a, b) == IF a < b THEN a ELSE b

saturating_sub(a, b) == IF a > b THEN a - b ELSE 0

\* a UTF-8 continuation byte (10xxxxxx)
is_continuation(b) == b >= 128 /\ b < 192

\* byte offsets at which a char starts: the offsets char_indices() yields
char_starts(s) == {i \in 0..(Len(s) - 1) : ~is_continuation(s[i + 1])}

\* s.char_indices().count()
char_count(s) == Cardinality(char_starts(s))

\* s.char_indices().nth(n) as its byte offset; -1 for Option::None
nth_offset(s, n) ==
    LET hit == {i \in char_starts(s) :
                    Cardinality({k \in char_starts(s) : k < i}) = n}
    IN IF hit = {} THEN -1 ELSE CHOOSE i \in hit : TRUE

\* number of bytes of the char that starts at byte offset idx
width_at(s, idx) ==
    LET rest == {k \in char_starts(s) : k > idx}
    IN IF rest = {} THEN Len(s) - idx
       ELSE (CHOOSE k \in rest : \A m \in rest : k <= m) - idx

\* String::insert(idx, ch)
string_insert(s, idx, ch) ==
    SubSeq(s, 1, idx) \o ch \o SubSeq(s, idx + 1, Len(s))

\* String::remove(idx): removes the char that starts at idx
string_remove(s, idx) ==
    SubSeq(s, 1, idx) \o SubSeq(s, idx + width_at(s, idx) + 1, Len(s))

\* Vec::remove(i) and Vec::insert(i, x), 0-based
vec_remove(v, i) == SubSeq(v, 1, i) \o SubSeq(v, i + 2, Len(v))
vec_insert(v, i, x) == SubSeq(v, 1, i) \o <<x>> \o SubSeq(v, i + 1, Len(v))

(***************************************************************************)
(* TextArea: each operation maps [lines, cursor] to the new value.         *)
(***************************************************************************)

CursorMoves == {"Top", "Bottom", "Up", "Down", "Back", "Forward", "Home",
                "End", "PageUp", "PageDown"}

\* TextArea::move_cursor; h is scroll.get_visual_height()
move_cursor(ta, cursor_move, h) ==
    LET current_row == ta.cursor[1]
        current_column == ta.cursor[2]
        ln(r) == ta.lines[r + 1]
        last_row == Len(ta.lines) - 1
        clamp(new_row) == <<new_row, min(current_column, Len(ln(new_row)))>>
    IN [ta EXCEPT !.cursor =
        CASE cursor_move = "Top" -> clamp(0)
          [] cursor_move = "Bottom" -> clamp(last_row)
          [] cursor_move = "Up" -> clamp(saturating_sub(current_row, 1))
          [] cursor_move = "Down" -> clamp(min(current_row + 1, last_row))
          [] cursor_move = "Back" ->
                <<current_row, saturating_sub(current_column, 1)>>
          [] cursor_move = "Forward" ->
                <<current_row,
                  min(current_column + 1, char_count(ln(current_row)))>>
          [] cursor_move = "Home" -> <<current_row, 0>>
          [] cursor_move = "End" ->
                <<current_row, char_count(ln(current_row))>>
          [] cursor_move = "PageUp" -> clamp(saturating_sub(current_row, h))
          [] cursor_move = "PageDown" ->
                clamp(min(current_row + h,
                          saturating_sub(Len(ta.lines), 1)))]

\* TextArea::delete_next_char
delete_next_char(ta) ==
    LET current_row == ta.cursor[1]
        current_column == ta.cursor[2]
        current_line == ta.lines[current_row + 1]
        offset == nth_offset(current_line, current_column)
    IN IF current_column < Len(current_line)
       THEN IF offset # -1
            THEN [ta EXCEPT !.lines[current_row + 1] =
                                string_remove(current_line, offset)]
            ELSE ta
       ELSE IF current_row < saturating_sub(Len(ta.lines), 1)
            THEN LET next_line == ta.lines[current_row + 2]
                     removed == vec_remove(ta.lines, current_row + 1)
                 IN [ta EXCEPT !.lines =
                        [removed EXCEPT ![current_row + 1] = @ \o next_line]]
            ELSE ta

\* TextArea::delete_char
delete_char(ta) ==
    LET current_row == ta.cursor[1]
        current_column == ta.cursor[2]
        current_line == ta.lines[current_row + 1]
        offset == nth_offset(current_line, current_column - 1)
    IN IF current_column > 0
       THEN IF offset # -1
            THEN [lines |-> [ta.lines EXCEPT ![current_row + 1] =
                                string_remove(current_line, offset)],
                  cursor |-> <<current_row, current_column - 1>>]
            ELSE ta
       ELSE IF current_row > 0
            THEN LET removed == vec_remove(ta.lines, current_row)
                     previous_line == removed[current_row]
                     previous_line_length == char_count(previous_line)
                 IN [lines |-> [removed EXCEPT ![current_row] =
                                    previous_line \o current_line],
                     cursor |-> <<current_row - 1, previous_line_length>>]
            ELSE ta

\* (mutation) the cursor column taken as a byte offset
cursor_offset_bytes(current_line, current_column) ==
    min(current_column, Len(current_line))

\* byte offset of the cursor column: char_indices().nth(col), else len()
cursor_offset(current_line, current_column) ==
    IF nth_offset(current_line, current_column) = -1
    THEN Len(current_line)
    ELSE nth_offset(current_line, current_column)

\* TextArea::insert_char
insert_char(ta, char) ==
    LET current_row == ta.cursor[1]
        current_column == ta.cursor[2]
        current_line == ta.lines[current_row + 1]
        offset == cursor_offset(current_line, current_column)
    IN [lines |-> [ta.lines EXCEPT ![current_row + 1] =
                        string_insert(current_line, offset, char)],
        cursor |-> <<current_row, current_column + 1>>]

\* (mutation) the line is split at the byte offset equal to the column
insert_newline_bytes(ta) ==
    LET current_row == ta.cursor[1]
        current_column == ta.cursor[2]
        current_line == ta.lines[current_row + 1]
        offset == min(current_column, Len(current_line))
        new_line == SubSeq(current_line, offset + 1, Len(current_line))
        inserted == vec_insert(ta.lines, current_row + 1, new_line)
    IN [lines |-> [inserted EXCEPT ![current_row + 1] =
                        SubSeq(current_line, 1, offset)],
        cursor |-> <<current_row + 1, 0>>]

\* TextAreaComponent::insert_newline
insert_newline(ta) ==
    LET current_row == ta.cursor[1]
        current_column == ta.cursor[2]
        current_line == ta.lines[current_row + 1]
        offset == cursor_offset(current_line, current_column)
        new_line == SubSeq(current_line, offset + 1, Len(current_line))
        inserted == vec_insert(ta.lines, current_row + 1, new_line)
    IN [lines |-> [inserted EXCEPT ![current_row + 1] =
                        SubSeq(current_line, 1, offset)],
        cursor |-> <<current_row + 1, 0>>]

RECURSIVE join(_)
\* lines().join("\n") of TextInputComponent::get_text
join(v) ==
    IF Len(v) = 0 THEN <<>>
    ELSE IF Len(v) = 1 THEN v[1]
    ELSE v[1] \o <<LF>> \o join(Tail(v))

get_text == join(lines)

\* TextArea::new with no lines: one empty line, cursor (0, 0)
InitTextArea ==
    /\ lines = << <<>> >>
    /\ cursor = <<0, 0>>
    /\ visual_height = 0
    /\ rt_s = <<>>
    /\ rt_i = 0

TA == [lines |-> lines, cursor |-> cursor]

RECURSIVE total_chars(_)
total_chars(v) ==
    IF Len(v) = 0 THEN 0 ELSE char_count(v[1]) + total_chars(Tail(v))

\* process_inputs, Key::Char(c): ta.insert_char(c)
key_char(c) ==
    /\ total_chars(lines) < MaxChars
    /\ lines' = insert_char(TA, c).lines
    /\ cursor' = insert_char(TA, c).cursor
    /\ UNCHANGED <<visual_height, rt_s, rt_i>>
    /\ UNCHANGED notTextArea

\* event, the newline key: ta.insert_newline()
key_newline ==
    /\ Len(lines) < MaxLines
    /\ lines' = insert_newline(TA).lines
    /\ cursor' = insert_newline(TA).cursor
    /\ UNCHANGED <<visual_height, rt_s, rt_i>>
    /\ UNCHANGED notTextArea

\* process_inputs, Key::Backspace: ta.delete_char()
key_backspace ==
    /\ lines' = delete_char(TA).lines
    /\ cursor' = delete_char(TA).cursor
    /\ UNCHANGED <<visual_height, rt_s, rt_i>>
    /\ UNCHANGED notTextArea

\* process_inputs, Key::Delete: ta.delete_next_char()
key_delete ==
    /\ lines' = delete_next_char(TA).lines
    /\ cursor' = delete_next_char(TA).cursor
    /\ UNCHANGED <<visual_height, rt_s, rt_i>>
    /\ UNCHANGED notTextArea

\* process_inputs, the cursor keys: ta.move_cursor(m)
key_move(m) ==
    /\ lines' = move_cursor(TA, m, visual_height).lines
    /\ cursor' = move_cursor(TA, m, visual_height).cursor
    /\ UNCHANGED <<visual_height, rt_s, rt_i>>
    /\ UNCHANGED notTextArea

\* a draw call: scroll.update stores the height of the drawn area
draw(h) ==
    /\ visual_height' = h
    /\ UNCHANGED <<lines, cursor, rt_s, rt_i>>
    /\ UNCHANGED notTextArea

NextTextArea ==
    \/ \E c \in Alphabet : key_char(c)
    \/ key_newline
    \/ key_backspace
    \/ key_delete
    \/ \E m \in CursorMoves : key_move(m)
    \/ \E h \in 0..MaxHeight : draw(h)

\* the strings over the alphabet and line feed of length at most n
RECURSIVE Strings(_)
Strings(n) ==
    IF n = 0 THEN {<<>>}
    ELSE LET shorter == Strings(n - 1)
         IN shorter \cup {Append(w, c) : w \in shorter,
                                         c \in Alphabet \cup {<<LF>>}}

\* s as a Rust String: the concatenation of the encodings of its chars
RECURSIVE encode(_)
encode(s) == IF Len(s) = 0 THEN <<>> ELSE s[1] \o encode(Tail(s))

\* the next char of rt_s is typed
type_next ==
    /\ rt_i < Len(rt_s)
    /\ lines' = insert_char(TA, rt_s[rt_i + 1]).lines
    /\ cursor' = insert_char(TA, rt_s[rt_i + 1]).cursor
    /\ rt_i' = rt_i + 1
    /\ UNCHANGED <<visual_height, rt_s>>
    /\ UNCHANGED notTextArea

(***************************************************************************)
(* TextInputComponent: the TextArea behind an Option (visible = Some) and  *)
(* the OnceCell msg that caches the text.  While the component is hidden   *)
(* there is no TextArea: lines is <<>>.                                    *)
(***************************************************************************)
RECURSIVE split_lines(_)
\* str::split('\n'): the pieces between the line feeds, at least one piece
split_lines(s) ==
    LET seps == {i \in 1..Len(s) : s[i] = LF}
    IN IF seps = {} THEN <<s>>
       ELSE LET k == CHOOSE i \in seps : \A j \in seps : i <= j
            IN <<SubSeq(s, 1, k - 1)>> \o split_lines(SubSeq(s, k + 1, Len(s)))

\* TextArea::new(lines): no lines become one empty line, the cursor is (0, 0)
TextArea_new(v) ==
    [lines |-> IF v = <<>> THEN << <<>> >> ELSE v, cursor |-> <<0, 0>>]

\* show_inner_textarea: the TextArea built from the cached msg, or from the
\* empty string when the cell is empty
show_inner_textarea(cell) ==
    TextArea_new(split_lines(IF cell = <<>> THEN <<>> ELSE cell[1]))

\* a shown text input nobody has typed into: the TextArea of InitTextArea
\* and an empty cell
InitTextInput ==
    /\ ti_msg = <<>>
    /\ ti_shown = TRUE
    /\ ti_ret = <<>>

\* the texts a caller sets
SetTexts == {encode(s) : s \in Strings(MaxSetText)}

\* what event does to the cell after a key that modified the textarea
take_if_modified_kept(cell) == cell
take_if_modified(cell) == <<>>

\* TextInputComponent::show
input_show ==
    /\ lines' = show_inner_textarea(ti_msg).lines
    /\ cursor' = show_inner_textarea(ti_msg).cursor
    /\ ti_shown' = TRUE
    /\ UNCHANGED <<ti_msg, ti_ret>>
    /\ UNCHANGED notTextInput

\* TextInputComponent::hide: self.textarea = None
input_hide ==
    /\ lines' = <<>>
    /\ cursor' = <<0, 0>>
    /\ ti_shown' = FALSE
    /\ UNCHANGED <<ti_msg, ti_ret>>
    /\ UNCHANGED notTextInput

\* TextInputComponent::set_text
input_set_text(text) ==
    /\ ti_msg' = <<text>>
    /\ IF ti_shown
       THEN /\ lines' = show_inner_textarea(<<text>>).lines
            /\ cursor' = show_inner_textarea(<<text>>).cursor
       ELSE UNCHANGED <<lines, cursor>>
    /\ UNCHANGED <<ti_shown, ti_ret>>
    /\ UNCHANGED notTextInput

\* TextInputComponent::clear
input_clear ==
    /\ ti_msg' = <<>>
    /\ IF ti_shown
       THEN /\ lines' = show_inner_textarea(<<>>).lines
            /\ cursor' = show_inner_textarea(<<>>).cursor
       ELSE UNCHANGED <<lines, cursor>>
    /\ UNCHANGED <<ti_shown, ti_ret>>
    /\ UNCHANGED notTextInput

\* TextInputComponent::set_default_msg: the textarea is rebuilt from the cell
input_set_default_msg ==
    /\ ti_shown
    /\ lines' = show_inner_textarea(ti_msg).lines
    /\ cursor' = show_inner_textarea(ti_msg).cursor
    /\ UNCHANGED <<ti_msg, ti_shown, ti_ret>>
    /\ UNCHANGED notTextInput

\* TextInputComponent::get_text: msg.get_or_init(|| lines().join("\n")), the
\* empty string when there is no textarea
input_get_text ==
    /\ ti_msg' = IF ti_msg # <<>> THEN ti_msg
                 ELSE IF ti_shown THEN <<join(lines)>> ELSE << <<>> >>
    /\ ti_ret' = ti_msg'
    /\ UNCHANGED <<lines, cursor, ti_shown>>
    /\ UNCHANGED notTextInput

\* the keys of event: exit_popup, newline (InputType::Multiline) and those of
\* process_inputs
InputKeys == {[key |-> "exit_popup"], [key |-> "newline"],
              [key |-> "backspace"], [key |-> "delete"]}
             \cup {[key |-> "char", c |-> c] : c \in Alphabet}
             \cup {[key |-> "move", m |-> m] : m \in CursorMoves}

\* the TextArea after the key
input_key(ta, k) ==
    IF k.key = "newline" THEN insert_newline(ta)
    ELSE IF k.key = "backspace" THEN delete_char(ta)
    ELSE IF k.key = "delete" THEN delete_next_char(ta)
    ELSE IF k.key = "char" THEN insert_char(ta, k.c)
    ELSE move_cursor(ta, k.m, visual_height)

\* TextInputComponent::event with a key, while there is a textarea
input_event(k) ==
    /\ ti_shown
    /\ k.key = "char" => total_chars(lines) < MaxInputChars
    /\ k.key = "newline" => Len(lines) < MaxInputLines
    /\ IF k.key = "exit_popup"
       THEN /\ lines' = <<>>
            /\ cursor' = <<0, 0>>
            /\ ti_shown' = FALSE
            /\ UNCHANGED ti_msg
       ELSE /\ lines' = input_key(TA, k).lines
            /\ cursor' = input_key(TA, k).cursor
            /\ ti_msg' = take_if_modified(ti_msg)
            /\ UNCHANGED ti_shown
    /\ UNCHANGED ti_ret
    /\ UNCHANGED notTextInput

NextTextInput ==
    \/ input_show
    \/ input_hide
    \/ \E text \in SetTexts : input_set_text(text)
    \/ input_clear
    \/ input_set_default_msg
    \/ input_get_text
    \/ \E k \in InputKeys : input_event(k)

(***************************************************************************)
(* git2-hooks: the hook resolver (HookPaths) and the hooks_* functions.    *)
(* A path is the sequence of its components; an absolute path starts with  *)
(* the component "/".                                                      *)
(***************************************************************************)

HOOK_POST_COMMIT == "post-commit"
HOOK_PRE_COMMIT == "pre-commit"
HOOK_COMMIT_MSG == "commit-msg"
HOOK_PRE_PUSH == "pre-push"
HookNames == {HOOK_POST_COMMIT, HOOK_PRE_COMMIT, HOOK_COMMIT_MSG,
              HOOK_PRE_PUSH}
HOOK_COMMIT_MSG_TEMP_FILE == "COMMIT_EDITMSG"
DEFAULT_HOOKS_PATH == "hooks"

\* the home directory of the user, for ~ expansion
HomeDir == <<"/", "home">>
\* repo.path(): the git directory
repo_path == IF bare THEN <<"/", "repo.git">> ELSE <<"/", "repo", ".git">>
\* repo.workdir(): <<>> for Option::None
repo_workdir == IF bare THEN <<>> ELSE <<"/", "repo">>

\* values of core.hooksPath: unset, with ~, relative, absolute
ConfigValues == {<<>>, <<"~", "cfg">>, <<"cfg">>, <<"/", "cfg">>}
\* values of other_paths: none, or two directories of the git directory
OtherPaths == {<<>>, <<"e1/", "e2">>}
\* what a file can be: absent, present but not executable, executable
FileKinds == {"missing", "plain", "exec"}

\* the directory core.hooksPath names, as git resolves it
ConfigDir ==
    IF hooks_path = <<"~", "cfg">> THEN HomeDir \o <<"cfg">>
    ELSE IF hooks_path = <<"cfg">>
         THEN (IF bare THEN repo_path ELSE repo_workdir) \o <<"cfg">>
    ELSE hooks_path
\* the directories that can hold a hook file
HookDirs ==
    {repo_path \o <<"hooks">>, repo_path \o <<"e1">>, repo_path \o <<"e2">>}
        \cup (IF hooks_path = <<>> THEN {} ELSE {ConfigDir})

\* Path::is_absolute
is_absolute(p) == Len(p) > 0 /\ p[1] = "/"
\* Path::join: an absolute argument replaces the path
path_join(a, b) == IF is_absolute(b) THEN b ELSE a \o b
\* shellexpand::full: a leading ~ becomes the home directory
shellexpand_full(p) ==
    IF Len(p) > 0 /\ p[1] = "~" THEN HomeDir \o Tail(p) ELSE p
\* str::trim_end_matches('/')
trim_end_matches(p) == IF p = "e1/" THEN "e1" ELSE p

\* the kind of the file at path p: fs tells it for the file itself, or for
\* all the hook files of its directory
file_kind(p) ==
    IF p \in DOMAIN fs THEN fs[p]
    ELSE IF Len(p) > 1 /\ p[Len(p)] \in HookNames
            /\ SubSeq(p, 1, Len(p) - 1) \in DOMAIN fs
    THEN fs[SubSeq(p, 1, Len(p) - 1)]
    ELSE "missing"
\* (mutation) only an executable file counts as existing
exists_executable(p) == file_kind(p) = "exec"
\* Path::exists
exists(p) == file_kind(p) # "missing"
\* is_executable (unix): any execute bit of the mode is set
is_executable(p) == file_kind(p) = "exec"

\* HookPaths::expand_path
expand_path(path, pwd) ==
    LET hook_expanded == shellexpand_full(path)
    IN IF is_absolute(hook_expanded) THEN hook_expanded
       ELSE path_join(pwd, hook_expanded)

\* HookPaths::config_hook_path
config_hook_path == hooks_path

\* (mutation) the extra paths are searched before the default hooks path
find_hook_others_first(others, hook) ==
    LET paths == [i \in 1..Len(others) |-> trim_end_matches(others[i])]
                    \o <<DEFAULT_HOOKS_PATH>>
        p(i) == path_join(path_join(repo_path, <<paths[i]>>), <<hook>>)
        hits == {i \in 1..Len(paths) : exists(p(i))}
    IN IF hits # {} THEN p(CHOOSE i \in hits : \A k \in hits : i <= k)
       ELSE path_join(path_join(repo_path, <<DEFAULT_HOOKS_PATH>>), <<hook>>)

\* HookPaths::find_hook
find_hook(others, hook) ==
    LET paths == <<DEFAULT_HOOKS_PATH>>
                    \o [i \in 1..Len(others) |-> trim_end_matches(others[i])]
        p(i) == path_join(path_join(repo_path, <<paths[i]>>), <<hook>>)
        hits == {i \in 1..Len(paths) : exists(p(i))}
    IN IF hits # {} THEN p(CHOOSE i \in hits : \A k \in hits : i <= k)
       ELSE path_join(path_join(repo_path, <<DEFAULT_HOOKS_PATH>>), <<hook>>)

\* (mutation) a configured hook that is missing falls back to the search
HookPaths_new_fallback(hook) ==
    LET pwd == IF repo_workdir = <<>> THEN repo_path ELSE repo_workdir
        git_dir == repo_path
        configured == expand_path(path_join(config_hook_path, <<hook>>), pwd)
    IN IF config_hook_path # <<>> /\ exists(configured)
       THEN [git |-> git_dir, hook |-> configured, pwd |-> pwd]
       ELSE [git |-> git_dir, hook |-> find_hook(other_paths, hook),
             pwd |-> pwd]

\* HookPaths::new
HookPaths_new(hook) ==
    LET pwd == IF repo_workdir = <<>> THEN repo_path ELSE repo_workdir
        git_dir == repo_path
    IN IF config_hook_path # <<>>
       THEN [git |-> git_dir,
             hook |-> expand_path(path_join(config_hook_path, <<hook>>),
                                  pwd),
             pwd |-> pwd]
       ELSE [git |-> git_dir, hook |-> find_hook(other_paths, hook),
             pwd |-> pwd]

\* (mutation) a hook file counts as found when it exists
found_exists(hook) == exists(hook.hook)

\* HookPaths::found
found(hook) == exists(hook.hook) /\ is_executable(hook.hook)

\* An Option is <<>> (None) or <<x>> (Some(x)).  The output of a finished
\* process: status is Some(exit code), or None when a signal ended it;
\* stdout and stderr are byte sequences, "ff" being a byte that is not
\* valid UTF-8.
OutBytes == {"a", "ff"}
\* the outputs a hook script of the resolver specification produces
ScriptOutputs ==
    {[status |-> <<0>>, stdout |-> <<"a">>, stderr |-> <<>>],
     [status |-> <<1>>, stdout |-> <<"a">>, stderr |-> <<"a", "ff">>]}

\* String::from_utf8_lossy: invalid bytes become U+FFFD
from_utf8_lossy(bytes) ==
    [i \in 1..Len(bytes) |-> IF bytes[i] = "ff" THEN "uFFFD" ELSE bytes[i]]

\* HookResult::NoHookFound
NoHookFound == [kind |-> "NoHookFound"]

\* hook_result_from_output
hook_result_from_output(hook, output) ==
    IF output.status = <<0>>
    THEN [kind |-> "Ok", hook |-> hook]
    ELSE [kind |-> "RunNotSuccessful",
          code |-> output.status,
          stdout |-> from_utf8_lossy(output.stdout),
          stderr |-> from_utf8_lossy(output.stderr),
          hook |-> hook]

\* HookResult::is_ok: no hook found, or the hook ran with exit code 0
is_ok(result) == result.kind = "NoHookFound" \/ result.kind = "Ok"

\* asyncgit: impl From<git2_hooks::HookResult> for HookResult
from_hook_result(v) ==
    IF v.kind \in {"Ok", "NoHookFound"} THEN [kind |-> "Ok"]
    ELSE [kind |-> "NotOk", text |-> v.stdout \o v.stderr]

\* the process spawn_hook_process starts: the hook file itself, in
\* directory pwd, with the given arguments; stdin is what is written to it
spawn_hook_process(hook, args, stdin) ==
    [program |-> hook.hook, args |-> args, dir |-> hook.pwd,
     stdin |-> stdin]

\* the hook inputs a call leaves alone
hookInputs == <<hooks_path, other_paths, bare, fs>>

\* hooks_pre_commit; out is what the script does when it is run
hooks_pre_commit(out) ==
    LET hook == HookPaths_new(HOOK_PRE_COMMIT)
    IN /\ hk_fn' = "hooks_pre_commit"
       /\ IF ~found(hook)
          THEN hk_ret' = NoHookFound /\ hk_spawn' = <<>>
          ELSE /\ hk_spawn' = <<spawn_hook_process(hook, <<>>, <<>>)>>
               /\ hk_ret' = hook_result_from_output(hook.hook, out)
       /\ UNCHANGED <<hookInputs, msg, temp_file, varsRun>>
       /\ UNCHANGED notHooks

\* hooks_post_commit
hooks_post_commit(out) ==
    LET hook == HookPaths_new(HOOK_POST_COMMIT)
    IN /\ hk_fn' = "hooks_post_commit"
       /\ IF ~found(hook)
          THEN hk_ret' = NoHookFound /\ hk_spawn' = <<>>
          ELSE /\ hk_spawn' = <<spawn_hook_process(hook, <<>>, <<>>)>>
               /\ hk_ret' = hook_result_from_output(hook.hook, out)
       /\ UNCHANGED <<hookInputs, msg, temp_file, varsRun>>
       /\ UNCHANGED notHooks

\* what a commit-msg script does with the message file it is given
ScriptEdits == {"keep", "rewrite", "remove"}

\* the message file after the script ran: <<>> when the file is gone
script_edit(file, edit) ==
    CASE edit = "keep" -> <<file>>
      [] edit = "rewrite" -> <<[file EXCEPT !.content = "altered"]>>
      [] edit = "remove" -> <<>>

\* (mutation) the message is not loaded again after the hook
reload_msg_kept(old, file) == old

\* hooks_commit_msg: msg.clear() and read_to_string of the message file; an
\* absent file leaves the cleared message
reload_msg(old, file) == IF file = <<>> THEN "" ELSE file[1].content

\* hooks_commit_msg; the script may edit the message file
hooks_commit_msg(out, edit) ==
    LET hook == HookPaths_new(HOOK_COMMIT_MSG)
        temp_path == path_join(hook.git, <<HOOK_COMMIT_MSG_TEMP_FILE>>)
        created == [path |-> temp_path, content |-> msg]
        res == hook_result_from_output(hook.hook, out)
    IN /\ hk_fn' = "hooks_commit_msg"
       /\ IF ~found(hook)
          THEN /\ hk_ret' = NoHookFound /\ hk_spawn' = <<>>
               /\ UNCHANGED <<msg, temp_file>>
          ELSE /\ hk_spawn' =
                    <<spawn_hook_process(hook, <<temp_path>>, <<>>)>>
               /\ temp_file' = script_edit(created, edit)
               /\ msg' = reload_msg(msg, temp_file')
               /\ hk_ret' = IF temp_file' = <<>>
                            THEN [kind |-> "Err", error |-> "NotFound"]
                            ELSE res
       /\ UNCHANGED <<hookInputs, varsRun>>
       /\ UNCHANGED notHooks

\* the length of an object id in hexadecimal
OidHexLen == 40
\* Oid::to_string: forty hexadecimal digits (an id is named by its digit)
oid_to_string(id) == [i \in 1..OidHexLen |-> id]
\* PrePushRef::format_oid
format_oid(oid) ==
    IF oid = <<>> THEN [i \in 1..OidHexLen |-> "0"]
    ELSE oid_to_string(oid[1])
\* PrePushRef::to_line
to_line(update) ==
    <<update.local_ref>> \o <<" ">> \o format_oid(update.local_oid)
        \o <<" ">> \o <<update.remote_ref>> \o <<" ">>
        \o format_oid(update.remote_oid)

\* the PrePushRef values: a new branch, a deleted branch
PrePushRefs ==
    {[local_ref |-> "refs/heads/new", local_oid |-> <<"a">>,
      remote_ref |-> "refs/heads/main", remote_oid |-> <<>>],
     [local_ref |-> "refs/heads/old", local_oid |-> <<>>,
      remote_ref |-> "refs/heads/old", remote_oid |-> <<"b">>]}
\* the update lists of at most n entries
RECURSIVE UpdateLists(_)
UpdateLists(n) ==
    IF n = 0 THEN {<<>>}
    ELSE LET shorter == UpdateLists(n - 1)
         IN shorter \cup {Append(w, u) : w \in shorter, u \in PrePushRefs}
\* the URL of the remote
RemoteUrl == "https://example/repo.git"
\* the remote argument: None, Some(""), Some("origin")
RemoteNames == {<<>>, <<"">>, <<"origin">>}

\* (mutation) the lines are written without their line feeds
RECURSIVE stdin_data_unterminated(_)
stdin_data_unterminated(updates) ==
    IF Len(updates) = 0 THEN <<>>
    ELSE to_line(updates[1]) \o stdin_data_unterminated(Tail(updates))

\* the stdin text hooks_pre_push builds: each update's line and a line feed
RECURSIVE stdin_data(_)
stdin_data(updates) ==
    IF Len(updates) = 0 THEN <<>>
    ELSE to_line(updates[1]) \o <<"\n">> \o stdin_data(Tail(updates))

\* hooks_pre_push: the remote name the hook is given
remote_name(remote, url) ==
    IF remote # <<>> /\ remote[1] # "" THEN remote[1] ELSE url

\* hooks_pre_push: the process run_hook_os_str_with_stdin starts, with the
\* arguments and the stdin text it is given
pre_push_process(hook, remote, url, updates) ==
    spawn_hook_process(hook, <<remote_name(remote, url), url>>,
                       stdin_data(updates))

\* hooks_pre_push
hooks_pre_push(remote, url, updates, out) ==
    LET hook == HookPaths_new(HOOK_PRE_PUSH)
    IN /\ hk_fn' = "hooks_pre_push"
       /\ IF ~found(hook)
          THEN hk_ret' = NoHookFound /\ hk_spawn' = <<>>
          ELSE /\ hk_spawn' = <<pre_push_process(hook, remote, url, updates)>>
               /\ hk_ret' = hook_result_from_output(hook.hook, out)
       /\ UNCHANGED <<hookInputs, msg, temp_file, varsRun>>
       /\ UNCHANGED notHooks

\* a repository of one commit, and no is_continuous call
InitRevwalk ==
    /\ rw_parents = [c \in {1} |-> {}]
    /\ rw_commits = <<>>
    /\ rw_walk = <<>>
    /\ rw_ret = "none"

\* no get_status call
InitGetStatus ==
    /\ gs_type = "WorkingDir"
    /\ gs_items = <<>>
    /\ gs_ret = [kind |-> "none"]

\* CommitPopup::new with no commit_helpers.ron: no helper, helper_state Idle
InitHelper ==
    /\ commit_helpers = <<>>
    /\ helper_state = [kind |-> "Idle"]
    /\ helper_receiver = <<>>
    /\ input_text = <<>>
    /\ hp_threads = <<>>
    /\ hp_polled = FALSE

\* nothing of asyncgit::sync or of the helpers has been called
InitSync == InitRevwalk /\ InitGetStatus /\ InitHelper /\ InitTextInput

\* a CommitPopup that has made no commit
InitCommit ==
    /\ verify = TRUE
    /\ history = <<>>
    /\ queue = <<>>
    /\ cm_call = <<>>
    /\ cm_steps = <<>>
    /\ cm_ret = "none"

\* no hook process has been started
InitRun ==
    /\ timeout = <<>>
    /\ run_pc = "idle"
    /\ timer = [elapsed |-> 0, attempt |-> 1, slept |-> 0]
    /\ child = [alive |-> FALSE, status |-> <<>>, todo |-> <<>>]
    /\ bg = "none"
    /\ pipes = [stdout |-> <<>>, stderr |-> <<>>]

\* no hook call has been made
InitHooksOnly ==
    /\ hooks_path = <<>>
    /\ other_paths = <<>>
    /\ bare = FALSE
    /\ fs = [d \in HookDirs |-> "missing"]
    /\ msg = "message"
    /\ temp_file = <<>>
    /\ hk_fn = "none"
    /\ hk_spawn = <<>>
    /\ hk_ret = [kind |-> "none"]
    /\ InitRun
    /\ InitCommit

\* no hook call and no is_continuous call has been made
InitHooks == InitHooksOnly /\ InitSync

\* a repository, its configuration and its hook files
InitHookPaths ==
    /\ hooks_path \in ConfigValues
    /\ other_paths \in OtherPaths
    /\ bare \in BOOLEAN
    /\ fs \in [HookDirs -> FileKinds]
    /\ msg = "message"
    /\ temp_file = <<>>
    /\ hk_fn = "none"
    /\ hk_spawn = <<>>
    /\ hk_ret = [kind |-> "none"]
    /\ InitRun
    /\ InitCommit
    /\ InitSync

NextHookPaths ==
    \/ \E out \in ScriptOutputs : hooks_pre_commit(out)
    \/ \E out \in ScriptOutputs : hooks_post_commit(out)
    \/ \E out \in ScriptOutputs, edit \in ScriptEdits :
            hooks_commit_msg(out, edit)
    \/ \E remote \in RemoteNames, updates \in UpdateLists(1),
          out \in ScriptOutputs :
            hooks_pre_push(remote, RemoteUrl, updates, out)

\* a repository without core.hooksPath, searched without extra paths
InitPrePush ==
    /\ hooks_path = <<>>
    /\ other_paths = <<>>
    /\ bare \in BOOLEAN
    /\ fs \in [HookDirs -> FileKinds]
    /\ msg = "message"
    /\ temp_file = <<>>
    /\ hk_fn = "none"
    /\ hk_spawn = <<>>
    /\ hk_ret = [kind |-> "none"]
    /\ InitRun
    /\ InitCommit
    /\ InitSync

\* pushes of up to MaxUpdates references
NextPrePush ==
    \E remote \in RemoteNames, updates \in UpdateLists(MaxUpdates),
       out \in ScriptOutputs :
        hooks_pre_push(remote, RemoteUrl, updates, out)

(***************************************************************************)
(* git2-hooks: run_hook_with_timeout_os_str supervising the hook process.  *)
(* The hook process is the leader of its own process group; it writes to   *)
(* the two pipes, may start a background process in its group, and exits.  *)
(* Time is in milliseconds.                                                *)
(***************************************************************************)

TIMESCALE == 1
MAX_SLEEP == 50

\* Option<Duration>: None, Some(0), Some(MaxTimeout ms)
Timeouts == {<<>>, <<0>>, <<MaxTimeout>>}
\* the exit codes of the hook script
ExitCodes == {0, 1}
\* how much longer than asked a sleep takes
Overheads == 0..MaxOverhead
\* what a hook script does: it writes a byte to one of its outputs, one
\* write after the other in this order, and exits
HookScripts == UNION {[1..n -> {"stdout", "stderr"}] : n \in 0..MaxOut}

\* smallest of two durations
min_duration(a, b) == IF a <= b THEN a ELSE b

\* (mutation) None also when the result would be zero
checked_sub_positive(a, b) == IF b >= a THEN <<>> ELSE <<a - b>>

\* Duration::checked_sub: None when the result would be negative
checked_sub(a, b) == IF b > a THEN <<>> ELSE <<a - b>>

\* (mutation) the sleep is not capped by the remaining time
sleep_time_overshooting(n, remaining_time) ==
    min_duration(TIMESCALE * n * n, MAX_SLEEP)

\* (mutation) the sleep is not capped by MAX_SLEEP
sleep_time_uncapped(n, remaining_time) ==
    min_duration(TIMESCALE * n * n, remaining_time)

\* timeout_with_quadratic_backoff: the time slept at an attempt
sleep_time(n, remaining_time) ==
    min_duration(min_duration(TIMESCALE * n * n, MAX_SLEEP), remaining_time)

\* Read::read_to_string: the bytes must be valid UTF-8
read_to_string(bytes) ==
    IF \E i \in 1..Len(bytes) : bytes[i] = "ff" THEN [err |-> "InvalidData"]
    ELSE [ok |-> bytes]

\* (mutation) only an absent timeout waits without supervision
waits_unsupervised_none(t) == t = <<>>

\* run_hook_with_timeout_os_str: the test for waiting without supervision
waits_unsupervised(t) == t = <<>> \/ t[1] = 0

\* the hook file run_hook_with_timeout_os_str is called on
run_hook == HookPaths_new(HOOK_PRE_COMMIT)

\* run_hook_with_timeout_os_str, up to the start of the wait: the process is
\* spawned in a new process group with both outputs piped
run_hook_with_timeout_os_str(t, script) ==
    /\ run_pc \in {"idle", "done", "killed", "failed"}
    /\ found(run_hook)
    /\ timeout' = t
    /\ hk_fn' = "run_hook_with_timeout_os_str"
    /\ hk_spawn' = <<spawn_hook_process(run_hook, <<>>, <<>>)>>
    /\ hk_ret' = [kind |-> "none"]
    /\ child' = [alive |-> TRUE, status |-> <<>>, todo |-> script]
    /\ bg' = "none"
    /\ pipes' = [stdout |-> <<>>, stderr |-> <<>>]
    /\ timer' = [elapsed |-> 0, attempt |-> 1, slept |-> 0]
    /\ run_pc' = IF waits_unsupervised(t) THEN "wait" ELSE "poll"
    /\ UNCHANGED <<hookInputs, msg, temp_file>>
    /\ UNCHANGED notHooks

\* the hook makes the next write of its script; a pipe nobody reads holds
\* PipeCap bytes and the write blocks while it is full, and wait_with_output
\* reads while it waits
hook_write(stream, b) ==
    /\ run_pc \in {"poll", "kill", "wait"}
    /\ child.alive
    /\ child.todo # <<>> /\ Head(child.todo) = stream
    /\ Len(pipes.stdout) + Len(pipes.stderr) < MaxOut
    /\ run_pc = "wait" \/ Len(pipes[stream]) < PipeCap
    /\ pipes' = [pipes EXCEPT ![stream] = Append(@, b)]
    /\ child' = [child EXCEPT !.todo = Tail(@)]
    /\ UNCHANGED <<hookInputs, msg, temp_file, hk_fn, hk_spawn, hk_ret,
                   timeout, run_pc, timer, bg>>
    /\ UNCHANGED notHooks

\* the hook starts a background process, which stays in the process group
\* and inherits the pipes
hook_fork ==
    /\ run_pc \in {"poll", "kill", "wait"}
    /\ child.alive
    /\ bg = "none"
    /\ bg' = "running"
    /\ UNCHANGED <<hookInputs, msg, temp_file, hk_fn, hk_spawn, hk_ret,
                   timeout, run_pc, timer, child, pipes>>
    /\ UNCHANGED notHooks

\* the hook has made its writes and exits with code k
hook_exit(k) ==
    /\ run_pc \in {"poll", "kill", "wait"}
    /\ child.alive
    /\ child.todo = <<>>
    /\ child' = [child EXCEPT !.alive = FALSE, !.status = <<k>>]
    /\ UNCHANGED <<hookInputs, msg, temp_file, hk_fn, hk_spawn, hk_ret,
                   timeout, run_pc, timer, bg, pipes>>
    /\ UNCHANGED notHooks

\* the background process ends
bg_exit ==
    /\ bg = "running"
    /\ bg' = "ended"
    /\ UNCHANGED <<hookInputs, msg, temp_file, hk_fn, hk_spawn, hk_ret,
                   timeout, run_pc, timer, child, pipes>>
    /\ UNCHANGED notHooks

\* timeout_with_quadratic_backoff: one evaluation of the loop condition and,
\* if the hook has not exited, one pass of the loop body; the sleep takes
\* the time asked for and an overhead
timeout_with_quadratic_backoff(overhead) ==
    /\ run_pc = "poll"
    /\ IF ~child.alive
       THEN run_pc' = "wait" /\ UNCHANGED timer
       ELSE LET remaining_time == checked_sub(timeout[1], timer.elapsed)
            IN IF remaining_time = <<>>
               THEN run_pc' = "kill" /\ UNCHANGED timer
               ELSE LET d == sleep_time(timer.attempt, remaining_time[1])
                    IN /\ d + overhead > 0 \/ timer.attempt < MaxAttempt
                       /\ timer' = [elapsed |-> timer.elapsed + d + overhead,
                                    attempt |-> timer.attempt + 1,
                                    slept |-> timer.slept + d]
                       /\ UNCHANGED run_pc
    /\ UNCHANGED <<hookInputs, msg, temp_file, hk_fn, hk_spawn, hk_ret,
                   timeout, child, bg, pipes>>
    /\ UNCHANGED notHooks

\* run_hook_with_timeout_os_str after the timeout: killpg(SIGKILL) ends every
\* process of the group, then both pipes are read to their end
kill_and_read ==
    LET stdout == read_to_string(pipes.stdout)
        stderr == read_to_string(pipes.stderr)
    IN /\ run_pc = "kill"
       /\ child' = IF child.alive
                   THEN [child EXCEPT !.alive = FALSE, !.status = <<>>]
                   ELSE child
       /\ bg' = IF bg = "running" THEN "ended" ELSE bg
       /\ IF "err" \in DOMAIN stdout \/ "err" \in DOMAIN stderr
          THEN /\ hk_ret' = [kind |-> "Err", error |-> "InvalidData"]
               /\ run_pc' = "failed"
          ELSE /\ hk_ret' = [kind |-> "TimedOut", hook |-> run_hook.hook,
                             stdout |-> stdout.ok, stderr |-> stderr.ok]
               /\ run_pc' = "killed"
       /\ UNCHANGED <<hookInputs, msg, temp_file, hk_fn, hk_spawn, timeout,
                      timer, pipes>>
       /\ UNCHANGED notHooks

\* child.wait_with_output() returns once the hook has exited and both pipes
\* are at their end (no process holds them open), and the result is built
wait_with_output ==
    /\ run_pc = "wait"
    /\ ~child.alive
    /\ bg # "running"
    /\ hk_ret' = hook_result_from_output(
                     run_hook.hook,
                     [status |-> child.status, stdout |-> pipes.stdout,
                      stderr |-> pipes.stderr])
    /\ run_pc' = "done"
    /\ UNCHANGED <<hookInputs, msg, temp_file, hk_fn, hk_spawn, timeout,
                   timer, child, bg, pipes>>
    /\ UNCHANGED notHooks

\* a repository whose pre-commit hook is an executable file
InitHookRun ==
    /\ hooks_path = <<>>
    /\ other_paths = <<>>
    /\ bare = FALSE
    /\ fs = [d \in HookDirs |->
                IF d = repo_path \o <<DEFAULT_HOOKS_PATH>> THEN "exec"
                ELSE "missing"]
    /\ msg = "message"
    /\ temp_file = <<>>
    /\ hk_fn = "none"
    /\ hk_spawn = <<>>
    /\ hk_ret = [kind |-> "none"]
    /\ InitRun
    /\ InitCommit
    /\ InitSync

\* run_hook_with_timeout_os_str has spawned a hook that never exits and
\* enters the supervision loop with a timeout of 1 to MaxLongTimeout ms
InitBackoff ==
    /\ hooks_path = <<>>
    /\ other_paths = <<>>
    /\ bare = FALSE
    /\ fs = [d \in HookDirs |->
                IF d = repo_path \o <<DEFAULT_HOOKS_PATH>> THEN "exec"
                ELSE "missing"]
    /\ msg = "message"
    /\ temp_file = <<>>
    /\ hk_fn = "run_hook_with_timeout_os_str"
    /\ hk_spawn = <<spawn_hook_process(run_hook, <<>>, <<>>)>>
    /\ hk_ret = [kind |-> "none"]
    /\ timeout \in {<<t>> : t \in 1..MaxLongTimeout}
    /\ run_pc = "poll"
    /\ timer = [elapsed |-> 0, attempt |-> 1, slept |-> 0]
    /\ child = [alive |-> TRUE, status |-> <<>>, todo |-> <<>>]
    /\ bg = "none"
    /\ pipes = [stdout |-> <<>>, stderr |-> <<>>]
    /\ InitCommit
    /\ InitSync

\* the supervision of a hook that never exits
NextBackoff ==
    \/ \E overhead \in Overheads : timeout_with_quadratic_backoff(overhead)
    \/ kill_and_read

NextHookRun ==
    \/ \E t \in Timeouts, script \in HookScripts :
            run_hook_with_timeout_os_str(t, script)
    \/ \E stream \in {"stdout", "stderr"}, b \in OutBytes :
            hook_write(stream, b)
    \/ hook_fork
    \/ \E k \in ExitCodes : hook_exit(k)
    \/ bg_exit
    \/ \E overhead \in Overheads : timeout_with_quadratic_backoff(overhead)
    \/ kill_and_read
    \/ wait_with_output

(***************************************************************************)
(* CommitPopup::commit_with_msg: the commit pipeline.  asyncgit calls the   *)
(* hooks without extra search paths.                                       *)
(***************************************************************************)

\* the messages typed into the popup
CommitMessages == {"message", "message # note"}

\* commit_message_prettify: comment lines and trailing whitespace removed
commit_message_prettify(m) == IF m = "message # note" THEN "message" ELSE m

\* git2_hooks::hooks_pre_commit / hooks_post_commit: the result of the call
\* when the script, if it is run, ends as out
hook_call(name, out) ==
    LET hook == HookPaths_new(name)
    IN IF ~found(hook) THEN NoHookFound
       ELSE hook_result_from_output(hook.hook, out)

\* git2_hooks::hooks_commit_msg: the result, the message and the message
\* file after the call
commit_msg_call(m, file, out, edit) ==
    LET hook == HookPaths_new(HOOK_COMMIT_MSG)
        created == [path |-> path_join(hook.git,
                                       <<HOOK_COMMIT_MSG_TEMP_FILE>>),
                    content |-> m]
        edited == script_edit(created, edit)
    IN IF ~found(hook)
       THEN [res |-> NoHookFound, msg |-> m, file |-> file]
       ELSE [res |-> IF edited = <<>>
                     THEN [kind |-> "Err", error |-> "NotFound"]
                     ELSE hook_result_from_output(hook.hook, out),
             msg |-> reload_msg(m, edited),
             file |-> edited]

\* the step a hook call adds to the steps executed, with the exit status
\* of the script: none without a process
hook_step(name, res, out) ==
    IF res.kind = "NoHookFound" THEN <<>>
    ELSE <<[step |-> name, status |-> out.status]>>

\* the step do_commit adds
commit_step == <<[step |-> "commit", status |-> <<>>]>>

\* InternalEvent::ShowErrorMsg for a rejecting hook
ShowErrorMsg(name, e) == [hook |-> name, text |-> e.text]

\* (mutation) the result of the pre-commit hook is not looked at
rejects_never(res) == FALSE

\* if let HookResult::NotOk(e) = ...: the hook result is a rejection
rejects(res) == res.kind # "Err" /\ from_hook_result(res).kind = "NotOk"

\* (mutation) the post-commit hook is called before the commit is made
commit_then_post_swapped(steps, committed, post) ==
    steps \o post \o committed

\* commit_with_msg: do_commit and then the post-commit hook
commit_then_post(steps, committed, post) == steps \o committed \o post

\* (mutation) the flag is left as the user set it
verify_at_entry_kept(on) == on

\* commit_with_msg: self.verify = true, before anything can return
verify_at_entry(on) == TRUE

\* CommitPopup::commit_with_msg
commit_with_msg(m, pre_out, msg_out, edit, commit_ok, post_out) ==
    LET on == verify
        pre == IF on THEN hook_call(HOOK_PRE_COMMIT, pre_out)
               ELSE NoHookFound
        pre_steps == IF on THEN hook_step(HOOK_PRE_COMMIT, pre, pre_out)
                     ELSE <<>>
        pretty == commit_message_prettify(m)
        cm == IF on THEN commit_msg_call(pretty, temp_file, msg_out, edit)
              ELSE [res |-> NoHookFound, msg |-> pretty, file |-> temp_file]
        cm_all == pre_steps
                    \o (IF on THEN hook_step(HOOK_COMMIT_MSG, cm.res, msg_out)
                        ELSE <<>>)
        post == hook_call(HOOK_POST_COMMIT, post_out)
    IN /\ Len(history) < MaxCommits
       /\ verify' = verify_at_entry(on)
       /\ cm_call' = <<[verify |-> on, msg |-> m]>>
       /\ UNCHANGED <<hookInputs, hk_fn, hk_spawn, hk_ret, varsRun>>
       /\ UNCHANGED notCommit
       /\ IF rejects(pre)
          THEN /\ queue' = <<ShowErrorMsg(HOOK_PRE_COMMIT,
                                          from_hook_result(pre))>>
               /\ cm_ret' = "Aborted"
               /\ cm_steps' = pre_steps
               /\ UNCHANGED <<history, msg, temp_file>>
          ELSE /\ msg' = cm.msg
               /\ temp_file' = cm.file
               /\ IF cm.res.kind = "Err"
                  THEN /\ cm_ret' = "Err"
                       /\ cm_steps' = cm_all
                       /\ queue' = <<>>
                       /\ UNCHANGED history
                  ELSE IF rejects(cm.res)
                  THEN /\ queue' = <<ShowErrorMsg(HOOK_COMMIT_MSG,
                                              from_hook_result(cm.res))>>
                       /\ cm_ret' = "Aborted"
                       /\ cm_steps' = cm_all
                       /\ UNCHANGED history
                  ELSE IF ~commit_ok
                  THEN /\ cm_ret' = "Err"
                       /\ cm_steps' = cm_all
                       /\ queue' = <<>>
                       /\ UNCHANGED history
                  ELSE /\ history' = Append(history, cm.msg)
                       /\ cm_steps' =
                            commit_then_post(cm_all, commit_step,
                                hook_step(HOOK_POST_COMMIT, post,
                                          post_out))
                       /\ queue' =
                            IF rejects(post)
                            THEN <<ShowErrorMsg(HOOK_POST_COMMIT,
                                                from_hook_result(post))>>
                            ELSE <<>>
                       /\ cm_ret' = "CommitDone"

\* CommitPopup::toggle_verify
toggle_verify ==
    /\ verify' = ~verify
    /\ UNCHANGED <<history, queue, cm_call, cm_steps, cm_ret>>
    /\ UNCHANGED varsHooks
    /\ UNCHANGED notCommit

\* the hook files of <git-dir>/hooks the pipeline runs
PipelineHooks ==
    {<<"/", "repo", ".git", "hooks", h>> :
        h \in {HOOK_PRE_COMMIT, HOOK_COMMIT_MSG, HOOK_POST_COMMIT}}

\* a repository with any of the three hooks, and an open commit popup
InitCommitPipeline ==
    /\ hooks_path = <<>>
    /\ other_paths = <<>>
    /\ bare = FALSE
    /\ fs \in [PipelineHooks -> FileKinds]
    /\ msg = ""
    /\ temp_file = <<>>
    /\ hk_fn = "none"
    /\ hk_spawn = <<>>
    /\ hk_ret = [kind |-> "none"]
    /\ InitRun
    /\ InitCommit
    /\ InitSync

NextCommitPipeline ==
    \/ \E m \in CommitMessages, pre_out \in ScriptOutputs,
          msg_out \in ScriptOutputs, edit \in ScriptEdits,
          commit_ok \in BOOLEAN, post_out \in ScriptOutputs :
            commit_with_msg(m, pre_out, msg_out, edit, commit_ok, post_out)
    \/ toggle_verify

(***************************************************************************)
(* asyncgit sync::revwalk::is_continuous.  Commits are numbered; a parent   *)
(* has a smaller number than its children; the id 0 names no commit of the *)
(* repository.                                                             *)
(***************************************************************************)

\* the commits of the repository
Revs == DOMAIN rw_parents
\* the ids a caller can pass
CommitIds == {0} \cup (1..MaxRevs)
\* the lengths of the commits argument
RangeLens == {0, 1, 2, 3}

\* the repositories: one root, every other commit has one or two parents
Repositories ==
    {g \in [1..MaxRevs -> SUBSET (1..MaxRevs)] :
        \A c \in 1..MaxRevs :
            /\ g[c] \subseteq 1..(c - 1)
            /\ Cardinality(g[c]) <= 2
            /\ c > 1 => g[c] # {}}

\* the sequences of n distinct ids
RECURSIVE DistinctSeqs(_)
DistinctSeqs(n) ==
    IF n = 0 THEN {<<>>}
    ELSE {Append(w, c) : w \in DistinctSeqs(n - 1), c \in CommitIds}
            \ {Append(w, w[i]) : w \in DistinctSeqs(n - 1), i \in 1..(n - 1)}

\* the commits reachable from c, c included
RECURSIVE reachable(_)
reachable(c) == {c} \cup UNION {reachable(q) : q \in rw_parents[c]}

\* revwalk with Sort::TOPOLOGICAL pushed at start, .take(n): the sequences
\* it can yield: as many as there are, at most n, each commit after all its
\* children
revwalk_take(start, n) ==
    LET all == reachable(start)
        m == IF n <= Cardinality(all) THEN n ELSE Cardinality(all)
        children(c) == {d \in all : c \in rw_parents[d]}
    IN {w \in [1..m -> all] :
          \A i \in 1..m :
             /\ \A k \in 1..(i - 1) : w[k] # w[i]
             /\ children(w[i]) \subseteq {w[k] : k \in 1..(i - 1)}}

\* (mutation) the lengths of the walk and of the range are not compared
is_continuous_zip(commits, revwalked) ==
    IF Len(commits) <= 1 THEN "Ok(true)"
    ELSE IF \A i \in 1..Len(revwalked) : revwalked[i] = commits[i]
         THEN "Ok(true)"
         ELSE "Ok(false)"

\* is_continuous, given what the revwalk yielded
is_continuous(commits, revwalked) ==
    IF Len(commits) <= 1 THEN "Ok(true)"
    ELSE IF Len(revwalked) # Len(commits) THEN "Ok(false)"
    ELSE IF \A i \in 1..Len(revwalked) : revwalked[i] = commits[i]
         THEN "Ok(true)"
         ELSE "Ok(false)"

\* the call of is_continuous on the commits given: revwalk.push fails for
\* an id that names no commit; no revwalk is made for fewer than two commits
is_continuous_call ==
    /\ rw_ret = "none"
    /\ IF Len(rw_commits) <= 1
       THEN rw_walk' = <<>> /\ rw_ret' = is_continuous(rw_commits, <<>>)
       ELSE IF rw_commits[1] \notin Revs
       THEN rw_walk' = <<>> /\ rw_ret' = "Err"
       ELSE \E revwalked \in revwalk_take(rw_commits[1], Len(rw_commits)) :
               /\ rw_walk' = revwalked
               /\ rw_ret' = is_continuous(rw_commits, revwalked)
    /\ UNCHANGED <<rw_parents, rw_commits>>
    /\ UNCHANGED notRevwalk

\* any repository and any commits argument, before the call
InitRevwalkAny ==
    /\ rw_parents \in Repositories
    /\ rw_commits \in UNION {DistinctSeqs(n) : n \in RangeLens}
    /\ rw_walk = <<>>
    /\ rw_ret = "none"

NextRevwalk == is_continuous_call

(***************************************************************************)
(* asyncgit::sync::status::get_status.  A path is the text the status      *)
(* iteration gives (components joined with '/'), a text is a sequence of   *)
(* characters, and the result is sorted with Path::cmp.                    *)
(***************************************************************************)

StatusTypes == {"WorkingDir", "Stage", "Both"}

\* the byte of a character
byte(c) ==
    CASE c = "." -> 46
      [] c = "/" -> 47
      [] c = "a" -> 97
      [] c = "b" -> 98

\* the relative paths of the changed files, as their components: a, a/b,
\* a.b and b/a
RelaPaths ==
    { << <<"a">> >>, << <<"a">>, <<"b">> >>, << <<"a", ".", "b">> >>,
      << <<"b">>, <<"a">> >> }

\* rela_path().to_string(): the components joined with '/'
RECURSIVE to_string(_)
to_string(p) ==
    IF Len(p) = 1 THEN p[1]
    ELSE p[1] \o <<"/">> \o to_string(Tail(p))

\* Path::components of a relative path: the text between the separators
RECURSIVE components(_)
components(s) ==
    LET seps == {i \in 1..Len(s) : s[i] = "/"}
    IN IF seps = {} THEN (IF s = <<>> THEN <<>> ELSE <<s>>)
       ELSE LET k == CHOOSE i \in seps : \A j \in seps : i <= j
            IN (IF k = 1 THEN <<>> ELSE <<SubSeq(s, 1, k - 1)>>)
                   \o components(SubSeq(s, k + 1, Len(s)))

\* Ord of two integers
cmp_int(a, b) == IF a < b THEN "Less" ELSE IF a > b THEN "Greater" ELSE "Equal"

\* the lexicographic order of two sequences over the order of their elements
cmp_seq(x, y, elem_cmp(_, _)) ==
    LET n == min(Len(x), Len(y))
        d == {i \in 1..n : elem_cmp(x[i], y[i]) # "Equal"}
    IN IF d = {} THEN cmp_int(Len(x), Len(y))
       ELSE LET k == CHOOSE i \in d : \A j \in d : i <= j
            IN elem_cmp(x[k], y[k])

\* Ord of two characters, of two texts (str::cmp: byte by byte) and of two
\* path components (OsStr::cmp)
cmp_char(a, b) == cmp_int(byte(a), byte(b))
cmp_str(a, b) == cmp_seq(a, b, cmp_char)

\* (mutation) the paths compared as texts
Path_cmp_str(a, b) == cmp_str(a, b)

\* Path::new(a).cmp(Path::new(b)): component by component
Path_cmp(a, b) == cmp_seq(components(a), components(b), cmp_str)

\* what the status iteration yields: an index-worktree item, whose summary
\* may be None, or a tree-index change
RawItems ==
    {[path |-> to_string(p), source |-> "IndexWorktree", summary |-> s] :
        p \in RelaPaths, s \in {<<>>, <<"Modified">>}}
    \cup {[path |-> to_string(p), source |-> "TreeIndex",
           summary |-> <<"Modified">>] : p \in RelaPaths}

RECURSIVE SeqsUpTo(_, _)
SeqsUpTo(S, n) ==
    IF n = 0 THEN {<<>>}
    ELSE LET shorter == SeqsUpTo(S, n - 1)
         IN shorter \cup {Append(q, x) : q \in {r \in shorter : Len(r) = n - 1},
                                          x \in S}

\* the items the chosen iteration visits, in its order
status_iter(status_type, items) ==
    LET visited(item) ==
            CASE status_type = "WorkingDir" -> item.source = "IndexWorktree"
              [] status_type = "Stage" -> item.source = "TreeIndex"
              [] status_type = "Both" -> TRUE
    IN SelectSeq(items, visited)

\* the loop bodies: an item with a status is pushed
RECURSIVE push_items(_)
push_items(items) ==
    IF items = <<>> THEN <<>>
    ELSE LET item == items[Len(items)]
             res == push_items(SubSeq(items, 1, Len(items) - 1))
         IN IF item.summary = <<>> THEN res
            ELSE Append(res, [path |-> item.path, status |-> item.summary[1]])

\* the comparison given to sort_by
by_path(a, b) == Path_cmp(a.path, b.path)

\* Vec::sort_by with that comparison, a stable sort: every item goes behind
\* the items that are not greater
RECURSIVE sort_by(_)
sort_by(v) ==
    IF v = <<>> THEN <<>>
    ELSE LET x == v[Len(v)]
             rest == sort_by(SubSeq(v, 1, Len(v) - 1))
             k == Cardinality({i \in 1..Len(rest) :
                                  by_path(rest[i], x) # "Greater"})
         IN SubSeq(rest, 1, k) \o <<x>> \o SubSeq(rest, k + 1, Len(rest))

\* get_status
get_status ==
    /\ gs_ret.kind = "none"
    /\ gs_ret' = [kind |-> "Ok",
                  res |-> sort_by(push_items(status_iter(gs_type, gs_items)))]
    /\ UNCHANGED <<gs_type, gs_items>>
    /\ UNCHANGED notGetStatus

\* a call of get_status on a repository with up to MaxItems changes
InitGetStatusAny ==
    /\ gs_type \in StatusTypes
    /\ gs_items \in SeqsUpTo(RawItems, MaxItems)
    /\ gs_ret = [kind |-> "none"]

NextGetStatus == get_status

(***************************************************************************)
(* The commit helpers of the CommitPopup.  A helper runs in a background   *)
(* thread that sends its result over a channel made for it; update() is    *)
(* called once per tick of the user interface.  Threads and their channels *)
(* are numbered in the order of their creation.  Time is in seconds; the   *)
(* start_time of a running helper is kept as the time elapsed since it.    *)
(***************************************************************************)

SPINNER_FRAMES == 10
SPINNER_INTERVAL_MS == 80
HELPER_TIMEOUT_SECS == 30

\* CommitHelper::timeout_secs: None or Some(15)
TimeoutSecs == {<<>>, <<15>>}
\* the names of the helpers of commit_helpers.ron, in its order
HelperNames == <<"one", "two">>
\* the configurations: no helper, one, two
HelperConfigs ==
    UNION {[1..n -> TimeoutSecs] : n \in 0..Len(HelperNames)}
\* CommitHelpers::get_helpers of a configuration
get_helpers(config) ==
    [i \in 1..Len(config) |->
        [name |-> HelperNames[i], timeout_secs |-> config[i]]]

Keys == {"Esc", "Up", "Down", "Enter", "commit_helper", "other"}

HelperError(text) == [kind |-> "Error", text |-> text]

\* the popup as the helper functions see it
popup ==
    [state |-> helper_state, receiver |-> helper_receiver,
     text |-> input_text, threads |-> hp_threads]

\* self.helper_receiver is overwritten or set to None: the Receiver it held
\* is dropped, after its message was taken (how = "received") or with
\* whatever it holds (how = "dropped")
drop_receiver(st, how) ==
    IF st.receiver = <<>> THEN st
    ELSE [st EXCEPT !.threads[st.receiver[1].chan].rx = how,
                    !.receiver = <<>>]

\* check_helper_result: try_recv on the channel
check_helper_result(st) ==
    IF st.receiver # <<>> /\ st.receiver[1].result # "none"
    THEN LET got == st.receiver[1]
             taken == drop_receiver(st, "received")
         IN IF got.result = "Ok"
            THEN [taken EXCEPT !.state = [kind |-> "Success"],
                               !.text = Append(st.text, got.chan)]
            ELSE [taken EXCEPT !.state = HelperError("Failed")]
    ELSE st

\* update_helper_animation: the limit a running helper is held to
helper_limit(helper_name) == HELPER_TIMEOUT_SECS

\* update_helper_animation: the state it leaves
update_helper_animation(st) ==
    IF st.state.kind = "Running"
    THEN IF st.state.elapsed > helper_limit(st.state.helper_name)
         THEN [st EXCEPT !.state = HelperError("Timeout: Helper took too long")]
         ELSE [st EXCEPT !.state.frame_index =
                   ((st.state.elapsed * 1000) \div SPINNER_INTERVAL_MS)
                       % SPINNER_FRAMES]
    ELSE st

\* the popup takes the values of st
popup_becomes(st) ==
    /\ helper_state' = st.state
    /\ helper_receiver' = st.receiver
    /\ input_text' = st.text
    /\ hp_threads' = st.threads

\* CommitPopup::update
update ==
    /\ popup_becomes(update_helper_animation(check_helper_result(popup)))
    /\ hp_polled' = TRUE
    /\ UNCHANGED commit_helpers
    /\ UNCHANGED notHelper

\* execute_helper_by_index: the state, the new channel and the thread
\* spawned, which has sent nothing yet
execute_helper_by_index(st, helper_index) ==
    IF helper_index >= Len(commit_helpers)
    THEN [st EXCEPT !.state = HelperError("Invalid helper index")]
    ELSE LET old == drop_receiver(st, "dropped")
             chan == Len(st.threads) + 1
         IN [old EXCEPT !.state = [kind |-> "Running",
                                   helper_name |->
                                       commit_helpers[helper_index + 1].name,
                                   frame_index |-> 0,
                                   elapsed |-> 0],
                        !.receiver = <<[chan |-> chan, result |-> "none"]>>,
                        !.threads = Append(old.threads,
                                           [pc |-> "running", rx |-> "held"])]

\* (mutation) a running helper does not keep the helper key from acting
run_commit_helper_unguarded(st) ==
    IF commit_helpers = <<>>
    THEN [st EXCEPT !.state = HelperError("No commit helpers configured")]
    ELSE IF Len(commit_helpers) = 1 THEN execute_helper_by_index(st, 0)
    ELSE [st EXCEPT !.state = [kind |-> "Selection", selected_index |-> 0]]

\* run_commit_helper, which is open_helper_selection
run_commit_helper(st) ==
    IF st.state.kind = "Running" THEN st
    ELSE IF commit_helpers = <<>>
    THEN [st EXCEPT !.state = HelperError("No commit helpers configured")]
    ELSE IF Len(commit_helpers) = 1 THEN execute_helper_by_index(st, 0)
    ELSE [st EXCEPT !.state = [kind |-> "Selection", selected_index |-> 0]]

\* (mutation) the receiver is kept when the run is cancelled
cancel_helper_keeping(st) ==
    IF st.state.kind = "Running"
    THEN [st EXCEPT !.state = HelperError("Cancelled by user")]
    ELSE st

\* cancel_helper
cancel_helper(st) ==
    IF st.state.kind = "Running"
    THEN [drop_receiver(st, "dropped") EXCEPT
              !.state = HelperError("Cancelled by user")]
    ELSE st

\* clear_helper_message
clear_helper_message(st) ==
    IF st.state.kind \in {"Success", "Error", "Selection"}
    THEN [st EXCEPT !.state = [kind |-> "Idle"]]
    ELSE st

\* the keys of the commit popup after the helper keys have been handled
key_dispatch(st, key) ==
    IF key = "commit_helper" THEN run_commit_helper(st) ELSE st

\* CommitPopup::event for a key, as far as the helpers go
event_key(st, key) ==
    LET n == Len(commit_helpers)
        sel == st.state.selected_index
    IN IF st.state.kind = "Selection" /\ key = "Esc"
       THEN [st EXCEPT !.state = [kind |-> "Idle"]]
       ELSE IF st.state.kind = "Selection" /\ key = "Up"
       THEN IF n > 0
            THEN [st EXCEPT !.state.selected_index =
                      IF sel = 0 THEN n - 1 ELSE sel - 1]
            ELSE st
       ELSE IF st.state.kind = "Selection" /\ key = "Down"
       THEN IF n > 0
            THEN [st EXCEPT !.state.selected_index = (sel + 1) % n]
            ELSE st
       ELSE IF st.state.kind = "Selection" /\ key = "Enter"
       THEN execute_helper_by_index(st, sel)
       ELSE IF key = "Esc" /\ st.state.kind = "Running"
       THEN cancel_helper(st)
       ELSE key_dispatch(clear_helper_message(st), key)

\* CommitPopup::event; at most MaxRuns helper runs are started
event(key) ==
    LET st == event_key(popup, key)
    IN /\ Len(st.threads) <= MaxRuns
       /\ popup_becomes(st)
       /\ hp_polled' = FALSE
       /\ UNCHANGED commit_helpers
       /\ UNCHANGED notHelper

\* the thread of run n: execute_helper returns and `let _ = tx.send(result)`
\* puts the result into its channel, or loses it when the receiver of the
\* channel has been dropped
execute_helper(n, result) ==
    /\ n \in 1..Len(hp_threads)
    /\ hp_threads[n].pc = "running"
    /\ hp_threads' = [hp_threads EXCEPT ![n].pc = "done"]
    /\ helper_receiver' =
          IF hp_threads[n].rx = "held"
          THEN <<[chan |-> n, result |-> result]>>
          ELSE helper_receiver
    /\ hp_polled' = FALSE
    /\ UNCHANGED <<commit_helpers, helper_state, input_text>>
    /\ UNCHANGED notHelper

\* a second passes while a helper runs
tick ==
    /\ helper_state.kind = "Running"
    /\ helper_state.elapsed < MaxElapsed
    /\ helper_state' = [helper_state EXCEPT !.elapsed = @ + 1]
    /\ hp_polled' = FALSE
    /\ UNCHANGED <<commit_helpers, helper_receiver, input_text, hp_threads>>
    /\ UNCHANGED notHelper

\* a CommitPopup with the helpers of some commit_helpers.ron
InitHelperAny ==
    /\ commit_helpers \in {get_helpers(c) : c \in HelperConfigs}
    /\ helper_state = [kind |-> "Idle"]
    /\ helper_receiver = <<>>
    /\ input_text = <<>>
    /\ hp_threads = <<>>
    /\ hp_polled = FALSE

NextHelper ==
    \/ update
    \/ \E key \in Keys : event(key)
    \/ \E n \in 1..MaxRuns, result \in {"Ok", "Err"} :
            execute_helper(n, result)
    \/ tick

(***************************************************************************)
(* Specifications                                                          *)
(***************************************************************************)

InitOfStatus ==
    /\ latch = "status"
    /\ InitStatus /\ InitPushTags /\ InitTextArea /\ InitHooks

SpecStatus == InitOfStatus /\ [][NextStatus]_vars

InitOfPushTags ==
    /\ latch = "push_tags"
    /\ InitStatus /\ InitPushTags /\ InitTextArea /\ InitHooks

SpecPushTags == InitOfPushTags /\ [][NextPushTags]_vars

\* The two latches share no state: a run exercises one of them.
InitLatches ==
    /\ latch \in {"status", "push_tags"}
    /\ InitStatus /\ InitPushTags /\ InitTextArea /\ InitHooks

status_step == latch = "status" /\ NextStatus

push_tags_step == latch = "push_tags" /\ NextPushTags

NextLatches == status_step \/ push_tags_step

SpecLatches == InitLatches /\ [][NextLatches]_vars

InitOfTextArea ==
    /\ latch = "none"
    /\ InitStatus /\ InitPushTags /\ InitTextArea /\ InitHooks

SpecTextArea == InitOfTextArea /\ [][NextTextArea]_vars

\* Round trip: an empty buffer, and any string to type into it.
InitRoundTrip ==
    /\ latch = "none" /\ InitStatus /\ InitPushTags /\ InitHooks
    /\ lines = << <<>> >>
    /\ cursor = <<0, 0>>
    /\ visual_height = 0
    /\ rt_s \in Strings(MaxStr)
    /\ rt_i = 0

NextRoundTrip == type_next

SpecRoundTrip == InitRoundTrip /\ [][NextRoundTrip]_vars

\* The hooks_* functions of git2-hooks in any repository.
InitOfHookPaths ==
    /\ latch = "none"
    /\ InitStatus /\ InitPushTags /\ InitTextArea /\ InitHookPaths

SpecHookPaths == InitOfHookPaths /\ [][NextHookPaths]_vars

\* hooks_pre_push called for pushes of several references.
InitOfPrePush ==
    /\ latch = "none"
    /\ InitStatus /\ InitPushTags /\ InitTextArea /\ InitPrePush

SpecPrePush == InitOfPrePush /\ [][NextPrePush]_vars

\* The commit popup committing, with and without the hooks.
InitOfCommitPipeline ==
    /\ latch = "none"
    /\ InitStatus /\ InitPushTags /\ InitTextArea /\ InitCommitPipeline

SpecCommitPipeline == InitOfCommitPipeline /\ [][NextCommitPipeline]_vars

\* is_continuous called on any repository.
InitOfRevwalk ==
    /\ latch = "none"
    /\ InitStatus /\ InitPushTags /\ InitTextArea /\ InitHooksOnly
    /\ InitTextInput
    /\ InitGetStatus /\ InitHelper
    /\ InitRevwalkAny

SpecRevwalk == InitOfRevwalk /\ [][NextRevwalk]_vars

\* get_status called on any set of changes.
InitOfGetStatus ==
    /\ latch = "none"
    /\ InitStatus /\ InitPushTags /\ InitTextArea /\ InitHooksOnly
    /\ InitTextInput
    /\ InitRevwalk /\ InitHelper
    /\ InitGetStatusAny

SpecGetStatus == InitOfGetStatus /\ [][NextGetStatus]_vars

\* The commit popup running its helpers.
InitOfHelper ==
    /\ latch = "none"
    /\ InitStatus /\ InitPushTags /\ InitTextArea /\ InitHooksOnly
    /\ InitTextInput
    /\ InitRevwalk /\ InitGetStatus
    /\ InitHelperAny

SpecHelper == InitOfHelper /\ [][NextHelper]_vars

\* run_hook_with_timeout_os_str and the hook process it supervises.
InitOfHookRun ==
    /\ latch = "none"
    /\ InitStatus /\ InitPushTags /\ InitTextArea /\ InitHookRun

SpecHookRun == InitOfHookRun /\ [][NextHookRun]_vars

\* timeout_with_quadratic_backoff run to the timeout, for every timeout.
InitOfBackoff ==
    /\ latch = "none"
    /\ InitStatus /\ InitPushTags /\ InitTextArea /\ InitBackoff

SpecBackoff == InitOfBackoff /\ [][NextBackoff]_vars

\* The same, with the thread that runs the loop scheduled again and again.
SpecBackoffFair == SpecBackoff /\ WF_vars(NextBackoff)

\* A TextInputComponent from TextInputComponent::new on: no textarea, an
\* empty cell.
InitOfTextInput ==
    /\ latch = "none"
    /\ InitStatus /\ InitPushTags /\ InitHooksOnly
    /\ InitRevwalk /\ InitGetStatus /\ InitHelper
    /\ lines = <<>>
    /\ cursor = <<0, 0>>
    /\ visual_height = 0
    /\ rt_s = <<>>
    /\ rt_i = 0
    /\ ti_msg = <<>>
    /\ ti_shown = FALSE
    /\ ti_ret = <<>>

SpecTextInput == InitOfTextInput /\ [][NextTextInput]_vars

(***************************************************************************)
(* Properties                                                              *)
(***************************************************************************)

Range(q) == {q[i] : i \in 1..Len(q)}

\* C1: under every interleaving of fetch calls and worker completions the
\* pending counter of AsyncStatus never exceeds 1.
C1_AtMostOneInFlight == pending <= 1

\* C2: fetch starts no worker iff the latch is pending at the call or the
\* slot holds a cached result with the call's fingerprint; otherwise it
\* spawns exactly one worker.  Read on the steps of a call: a call passes
\* the pending check only when nothing is pending; at the cache slot it
\* returns iff the slot holds Some(result) under its fingerprint; and the
\* spawn step adds exactly one job.
C2_DedupIffPendingOrCached ==
    [][\A t \in Callers :
        /\ (st_call[t].pc = "idle" /\ st_call'[t].pc = "gen")
                => pending = 0
        /\ (st_call[t].pc = "lock" /\ st_call'[t].pc # "lock")
                => ((st_call'[t].pc = "idle")
                        <=> (/\ current.hash = st_call[t].hash
                             /\ current.val # None))
        /\ (st_call[t].pc = "spawn" /\ st_call'[t].pc = "idle")
                => Cardinality({j \in StatusJobs : st_jobs'[j].pc # "free"})
                        = Cardinality(Spawned) + 1]_vars

\* a job with the parameters of the call that returned last had completed
\* before that call began
RetAfterSameParams ==
    /\ st_ret.kind # "none"
    /\ \E j \in st_ret.seen : st_jobs[j].params = st_ret.params

PushStored == {j \in PushJobs : pt_jobs[j].wpc \in {"clear", "notify", "done"}}
\* the push-tags jobs that hold the pending state
PushHolding ==
    {j \in PushJobs :
        pt_jobs[j].wpc \in {"start", "lib", "join", "result", "clear",
                            "panicked"}}
\* what set_result stores for job j
PushResult(j) == IF pt_jobs[j].ok THEN <<>> ELSE <<j>>

\* C4: once the completion notification of a job has been sent, its result
\* is stored and its pending state is cleared: last / last_result hold the
\* job's result until a newer job stores its own, and the pending state no
\* longer counts the job.
C4_PublishedBeforeNotified ==
    /\ \A j \in Range(st_notes) :
        /\ st_jobs[j].out # None => j \in Range(st_writes)
        /\ (st_jobs[j].out # None /\ st_writes[Len(st_writes)] = j)
                => last = st_jobs[j].out
        /\ pending <= Cardinality(Spawned) - Len(st_notes)
    /\ \A j \in PushJobs : <<j, "done">> \in Range(pt_notes) =>
        /\ j \in PushStored
        /\ (\A k \in PushStored : k <= j) => last_result = PushResult(j)
        /\ state # <<>> => \E k \in PushHolding : k > j

C4_Witness ==
    \E j \in Range(st_notes) :
        /\ st_jobs[j].out # None
        /\ last = st_jobs[j].out
        /\ pending = 0

\* C5: every job whose worker has ended, normally or by a panic, has
\* cleared the pending state of its latch and posted its notification.
C5_EndedWorkerHasCleared ==
    /\ \A j \in StatusJobs : st_jobs[j].pc = "done" =>
            /\ j \in Range(st_notes)
            /\ pending <= Cardinality(Spawned) - Len(st_notes)
    /\ \A j \in PushJobs : pt_jobs[j].wpc \in {"done", "panicked"} =>
            /\ <<j, "done">> \in Range(pt_notes)
            /\ state # <<>> => \E k \in PushHolding : k > j

\* the status jobs whose get_status failed
StatusFailed ==
    {j \in StatusJobs :
        st_jobs[j].pc \in {"gen", "dec", "send", "done"}
        /\ st_jobs[j].out = None}
\* the error of status job j, were it stored in `last`
StatusErr(j) == 0 - j

\* C6 (as stated): the error of a failed job is stored as the last result
\* of its latch and the usual notification is posted.
C6_ErrorStored ==
    /\ \A j \in StatusFailed : st_jobs[j].pc = "done" =>
            /\ j \in Range(st_notes)
            /\ (\A k \in Completed : k <= j) => last = StatusErr(j)
    /\ \A j \in PushJobs : (pt_jobs[j].wpc = "done" /\ ~pt_jobs[j].ok) =>
            /\ <<j, "done">> \in Range(pt_notes)
            /\ (\A k \in PushStored : k <= j) => last_result = <<j>>

\* C6 (amended): a failed push-tags job stores its error as last_result; a
\* failed status job stores nothing: `last` stays the result of the last
\* job that succeeded (the default before any) and the slot holds no result
\* of the failed job; both post the same notification as a successful job.
C6_ErrorStoredByPushTagsOnly ==
    /\ \A j \in StatusFailed :
            /\ j \notin Range(st_writes)
            /\ st_jobs[j].pc = "done" => j \in Range(st_notes)
    /\ last = IF st_writes = <<>> THEN None
              ELSE st_jobs[st_writes[Len(st_writes)]].out
    /\ \A j \in Range(st_writes) : st_jobs[j].out = j
    /\ \A j \in PushJobs : (j \in PushStored /\ ~pt_jobs[j].ok) =>
            /\ (\A k \in PushStored : k <= j) => last_result = <<j>>
            /\ pt_jobs[j].wpc = "done" => <<j, "done">> \in Range(pt_notes)

C6_Witness ==
    \E j \in StatusFailed :
        /\ st_jobs[j].pc = "done"
        /\ j \in Range(st_notes)
        /\ last # None

\* C7: request while a push-tags job is pending returns Ok(()) and starts
\* nothing and changes nothing; at most one job at a time holds the pending
\* state, so a job starts only after the previous one has cleared it.
C7_RequestWhilePending ==
    /\ [][(pt_tick' # pt_tick /\ state # <<>>) =>
            /\ pt_ret'.val = "Ok"
            /\ ~pt_ret'.started
            /\ UNCHANGED <<state, last_result, progress, pt_jobs,
                           pt_notes>>]_vars
    /\ [][(pt_tick' # pt_tick /\ pt_jobs' # pt_jobs) =>
            /\ state = <<>>
            /\ PushHolding = {}]_vars
    /\ [](Cardinality(PushHolding) <= 1)

C7_Witness ==
    /\ pt_ret.val = "Ok" /\ ~pt_ret.started
    /\ state # <<>> /\ progress # <<>>
    /\ \E j \in PushJobs : pt_jobs[j].wpc = "done"

\* a step of the relay thread of job j that writes the progress slot or
\* posts a progress notification
RelayStep(j) ==
    \/ pt_jobs[j].rpc = "run" /\ pt_jobs'[j].rpc = "notify"
    \/ pt_jobs[j].rpc = "notify" /\ pt_jobs'[j].rpc = "run"

\* C8: every progress write and progress notification of a push-tags job
\* happens while the job still holds the pending state and before its
\* completion notification.
C8_ProgressBeforeCompletion ==
    /\ [][\A j \in PushJobs : RelayStep(j) =>
            /\ state # <<>>
            /\ j \in PushHolding
            /\ j \notin PushStored
            /\ <<j, "done">> \notin Range(pt_notes)]_vars
    /\ [](\A j \in PushJobs : \A i, k \in 1..Len(pt_notes) :
            (pt_notes[i] = <<j, "done">> /\ pt_notes[k] = <<j, "progress">>)
                => k < i)

C8_Witness ==
    \E j \in PushJobs :
        /\ <<j, "done">> \in Range(pt_notes)
        /\ <<j, "progress">> \in Range(pt_notes)
        /\ \E n \in 1..MaxProgress : progress = <<j, n>>

\* C9: the cursor is inside the buffer: 0 <= row < lines.len() and
\* 0 <= col <= number of characters of lines[row].
C9_CursorInBounds ==
    /\ cursor[1] >= 0 /\ cursor[1] < Len(lines)
    /\ cursor[2] >= 0 /\ cursor[2] <= char_count(lines[cursor[1] + 1])

\* C10: typing the characters of s into an empty buffer with insert_char
\* and reading the text back yields s; this holds after every prefix.
C10_RoundTrip == get_text = encode(SubSeq(rt_s, 1, rt_i))

C10_Witness ==
    /\ rt_i = Len(rt_s) /\ rt_i >= 3
    /\ \E i, k \in 1..Len(rt_s) : i < k /\ Len(rt_s[i]) = 2 /\ Len(rt_s[k]) = 1

\* the characters of a String, each as its UTF-8 bytes
RECURSIVE chars_of(_)
chars_of(s) ==
    IF Len(s) = 0 THEN <<>>
    ELSE <<SubSeq(s, 1, width_at(s, 0))>>
            \o chars_of(SubSeq(s, width_at(s, 0) + 1, Len(s)))

\* all lines of the buffer one after the other
RECURSIVE concat(_)
concat(v) == IF Len(v) = 0 THEN <<>> ELSE v[1] \o concat(Tail(v))

\* C11: delete_char at (row, col): with col > 0 it removes exactly the
\* character left of the cursor and the cursor becomes (row, col - 1); with
\* col = 0 and row > 0 it joins the line onto the previous one and the
\* cursor becomes (row - 1, character count of the previous line); at
\* (0, 0) nothing changes.  Stated of delete_char applied to the buffer of
\* every reachable state.
C11_DeleteBackward ==
    LET row == cursor[1]
        col == cursor[2]
        cs == chars_of(lines[row + 1])
        after == delete_char(TA)
    IN IF col > 0
       THEN /\ col <= Len(cs)
            /\ Len(after.lines) = Len(lines)
            /\ chars_of(after.lines[row + 1])
                    = SubSeq(cs, 1, col - 1) \o SubSeq(cs, col + 1, Len(cs))
            /\ \A r \in 1..Len(lines) :
                    r # row + 1 => after.lines[r] = lines[r]
            /\ after.cursor = <<row, col - 1>>
       ELSE IF row > 0
       THEN /\ after.lines = SubSeq(lines, 1, row - 1)
                                \o <<lines[row] \o lines[row + 1]>>
                                \o SubSeq(lines, row + 2, Len(lines))
            /\ after.cursor = <<row - 1, Len(chars_of(lines[row]))>>
       ELSE after = TA

\* C12: delete_next_char at (row, col), the cursor being inside the buffer:
\* with col less than the character count of the line it removes exactly
\* the character under the cursor; at the end of a line that is not the
\* last it joins the next line onto it; at the end of the last line nothing
\* changes; the cursor never changes.  Stated of delete_next_char applied to
\* the buffer of every reachable state.
C12_DeleteForward ==
    C9_CursorInBounds =>
        LET row == cursor[1]
            col == cursor[2]
            cs == chars_of(lines[row + 1])
            after == delete_next_char(TA)
        IN /\ after.cursor = cursor
           /\ IF col < Len(cs)
              THEN /\ Len(after.lines) = Len(lines)
                   /\ chars_of(after.lines[row + 1])
                        = SubSeq(cs, 1, col) \o SubSeq(cs, col + 2, Len(cs))
                   /\ \A r \in 1..Len(lines) :
                        r # row + 1 => after.lines[r] = lines[r]
              ELSE IF row < Len(lines) - 1
              THEN after.lines = SubSeq(lines, 1, row)
                                    \o <<lines[row + 1] \o lines[row + 2]>>
                                    \o SubSeq(lines, row + 3, Len(lines))
              ELSE after.lines = lines

\* C13: insert_newline at (row, col) splits line row at character offset
\* col into the text before the cursor and the text from the cursor on,
\* leaves the other lines as they are and sets the cursor to (row + 1, 0);
\* the concatenation of all lines is unchanged.  Stated of insert_newline
\* applied to the buffer of every reachable state.
C13_InsertNewline ==
    LET row == cursor[1]
        col == cursor[2]
        cs == chars_of(lines[row + 1])
        k == min(col, Len(cs))
        after == insert_newline(TA)
    IN /\ Len(after.lines) = Len(lines) + 1
       /\ chars_of(after.lines[row + 1]) = SubSeq(cs, 1, k)
       /\ chars_of(after.lines[row + 2]) = SubSeq(cs, k + 1, Len(cs))
       /\ \A r \in 1..row : after.lines[r] = lines[r]
       /\ \A r \in (row + 2)..Len(lines) : after.lines[r + 1] = lines[r]
       /\ after.cursor = <<row + 1, 0>>
       /\ concat(after.lines) = concat(lines)

\* the cursor stands inside a line, between a multi-byte character and
\* the character after it, and the split has put each on its own line
C13_Witness ==
    /\ cursor[2] > 0 /\ cursor[2] < char_count(lines[cursor[1] + 1])
    /\ \E i \in 1..Len(lines[cursor[1] + 1]) :
            is_continuation(lines[cursor[1] + 1][i])
    /\ insert_newline(TA).lines[cursor[1] + 1] # <<>>
    /\ insert_newline(TA).lines[cursor[1] + 2] # <<>>


(***************************************************************************)
(* The hook resolver and the hooks_* functions.                            *)
(***************************************************************************)

\* the hook a hooks_* function runs
hook_name_of(fn) ==
    CASE fn = "hooks_pre_commit" -> HOOK_PRE_COMMIT
      [] fn = "hooks_post_commit" -> HOOK_POST_COMMIT
      [] fn = "hooks_commit_msg" -> HOOK_COMMIT_MSG
      [] fn = "hooks_pre_push" -> HOOK_PRE_PUSH

\* C17: when the resolved hook file is missing or is not executable, each of
\* hooks_pre_commit, hooks_post_commit, hooks_commit_msg and hooks_pre_push
\* returns NoHookFound and has spawned no process; NoHookFound is_ok(), and
\* asyncgit maps it to its HookResult::Ok.
C17_NoHookFound ==
    hk_fn # "none" =>
        LET file == HookPaths_new(hook_name_of(hk_fn)).hook
        IN file_kind(file) \in {"missing", "plain"} =>
               /\ hk_ret = [kind |-> "NoHookFound"]
               /\ hk_spawn = <<>>
               /\ is_ok(hk_ret)
               /\ from_hook_result(hk_ret) = [kind |-> "Ok"]

\* each function has returned from a hook file that exists but is not
\* executable (here: hooks_pre_push)
C17_Witness ==
    /\ hk_fn = "hooks_pre_push"
    /\ file_kind(HookPaths_new(HOOK_PRE_PUSH).hook) = "plain"
    /\ hk_ret = [kind |-> "NoHookFound"]
    /\ hk_spawn = <<>>

\* C18: when core.hooksPath is set, HookPaths::new returns the file
\* <hooksPath>/<hook> (~ expanded, a relative path resolved against the
\* hook working directory, an absolute one kept) whether or not it exists,
\* and a call whose configured file is missing returns NoHookFound and
\* spawns nothing, whatever git-dir/hooks and the extra paths hold.
C18_ConfiguredPathOnly ==
    hooks_path # <<>> =>
        /\ \A h \in HookNames : HookPaths_new(h).hook = ConfigDir \o <<h>>
        /\ (hk_fn # "none" /\ fs[ConfigDir] = "missing")
               => (hk_ret = [kind |-> "NoHookFound"] /\ hk_spawn = <<>>)

\* a call returned NoHookFound for a missing configured hook (given with ~)
\* while git-dir/hooks holds an executable one
C18_Witness ==
    /\ hooks_path = <<"~", "cfg">>
    /\ fs[<<"/", "home", "cfg">>] = "missing"
    /\ fs[repo_path \o <<"hooks">>] = "exec"
    /\ hk_fn = "hooks_pre_commit"
    /\ hk_ret = [kind |-> "NoHookFound"]

\* C19: when core.hooksPath is unset, the hook is the file of the first of
\* <git-dir>/hooks and the extra paths (in their order) in which it exists,
\* and <git-dir>/hooks/<hook> when it exists in none; that file is the
\* program a call starts.
C19_SearchOrder ==
    hooks_path = <<>> =>
        LET dirs == <<"hooks">>
                      \o (IF other_paths = <<>> THEN <<>> ELSE <<"e1", "e2">>)
            at(i) == repo_path \o <<dirs[i]>>
            first(i) == /\ fs[at(i)] # "missing"
                        /\ \A k \in 1..(i - 1) : fs[at(k)] = "missing"
        IN /\ \A h \in HookNames :
                 LET file == HookPaths_new(h).hook
                 IN IF \E i \in 1..Len(dirs) : first(i)
                    THEN \E i \in 1..Len(dirs) :
                            first(i) /\ file = at(i) \o <<h>>
                    ELSE file = repo_path \o <<"hooks", h>>
           /\ (hk_fn # "none" /\ hk_spawn # <<>>) =>
                 hk_spawn[1].program = HookPaths_new(hook_name_of(hk_fn)).hook

\* a call started the hook of the second extra path, the hook being in
\* neither <git-dir>/hooks nor the first extra path
C19_Witness ==
    /\ hooks_path = <<>>
    /\ other_paths = <<"e1/", "e2">>
    /\ fs[repo_path \o <<"hooks">>] = "missing"
    /\ fs[repo_path \o <<"e1">>] = "missing"
    /\ hk_fn = "hooks_post_commit"
    /\ hk_spawn # <<>>
    /\ hk_spawn[1].program = repo_path \o <<"e2", HOOK_POST_COMMIT>>

\* the text of update u at line i (from 1) of the stdin text
C20LineIs(stdin, i, u) ==
    LET at(k) == stdin[85 * (i - 1) + k]
        digit(oid) == IF oid = <<>> THEN "0" ELSE oid[1]
    IN /\ at(1) = u.local_ref
       /\ at(2) = " "
       /\ \A k \in 3..42 : at(k) = digit(u.local_oid)
       /\ at(43) = " "
       /\ at(44) = u.remote_ref
       /\ at(45) = " "
       /\ \A k \in 46..85 : at(k) = digit(u.remote_oid)

\* C20: the pre-push hook is started with exactly two arguments, the remote
\* name and the URL, the URL being used for both when the remote is None or
\* empty; its stdin holds, for each update in order, the line
\* '<local-ref> <local-oid> <remote-ref> <remote-oid>' and a line feed, an
\* absent oid being forty zeros; with no update the hook is still started,
\* with empty stdin.
C20_PrePushProtocol ==
    LET hook == HookPaths_new(HOOK_PRE_PUSH)
    IN /\ \A remote \in RemoteNames, updates \in UpdateLists(MaxUpdates) :
             LET process == pre_push_process(hook, remote, RemoteUrl, updates)
                 name == IF remote = <<"origin">> THEN "origin" ELSE RemoteUrl
             IN /\ process.args = <<name, RemoteUrl>>
                /\ Len(process.stdin) = 86 * Len(updates)
                /\ \A i \in 1..Len(updates) :
                      /\ LET text == [k \in 1..85 |->
                                        process.stdin[86 * (i - 1) + k]]
                         IN C20LineIs(text, 1, updates[i])
                      /\ process.stdin[86 * i] = "\n"
       /\ (hk_fn = "hooks_pre_push" /\ found(hook)) =>
             /\ hk_spawn # <<>>
             /\ \E remote \in RemoteNames,
                   updates \in UpdateLists(MaxUpdates) :
                   hk_spawn[1] =
                       pre_push_process(hook, remote, RemoteUrl, updates)

\* the hook was started for a push of two updates with no remote name: both
\* arguments are the URL, and the absent remote oid of the first update is
\* written as zeros
C20_Witness ==
    /\ hk_fn = "hooks_pre_push"
    /\ hk_spawn # <<>>
    /\ hk_spawn[1].args = <<RemoteUrl, RemoteUrl>>
    /\ Len(hk_spawn[1].stdin) = 172
    /\ hk_spawn[1].stdin[3] = "a"
    /\ hk_spawn[1].stdin[46] = "0"


(***************************************************************************)
(* The hook runner.                                                        *)
(***************************************************************************)

\* the text of the bytes of a pipe, invalid bytes replaced
C14Text(bytes) ==
    [i \in 1..Len(bytes) |-> IF bytes[i] = "ff" THEN "uFFFD" ELSE bytes[i]]

\* C14: when the hook has exited with code k and the run has returned, the
\* result carries the code k and the complete stdout and stderr of the
\* hook, for every k, 0 included.
C14_ExitCodeAndOutput ==
    run_pc = "done" =>
        /\ {"code", "stdout", "stderr"} \subseteq DOMAIN hk_ret
        /\ hk_ret.code = child.status
        /\ hk_ret.stdout = C14Text(pipes.stdout)
        /\ hk_ret.stderr = C14Text(pipes.stderr)

\* C15: when the supervision of a non-zero timeout found the hook still
\* running with no time left, the run kills the whole process group and
\* returns TimedOut with the output written so far; when it has returned,
\* no process of the group is running.
C15_TimedOutKillsGroup ==
    (run_pc \in {"killed", "failed"}) =>
        /\ hk_ret = [kind |-> "TimedOut", hook |-> run_hook.hook,
                     stdout |-> pipes.stdout, stderr |-> pipes.stderr]
        /\ ~child.alive
        /\ bg # "running"

\* C16: with a timeout of Some(0) the run is never supervised: the backoff
\* loop is not entered, no process is killed, the result is never TimedOut,
\* and the run returns, as with None, what the exit status and the output
\* of the hook give once the hook has exited and the pipes are closed.
C16_ZeroTimeoutIsNone ==
    (timeout = <<0>> /\ run_pc # "idle") =>
        /\ run_pc \in {"wait", "done"}
        /\ timer = [elapsed |-> 0, attempt |-> 1, slept |-> 0]
        /\ child.alive \/ child.status # <<>>
        /\ hk_ret.kind \in {"none", "Ok", "RunNotSuccessful"}
        /\ run_pc = "done" =>
              /\ ~child.alive /\ bg # "running"
              /\ hk_ret.kind = (IF child.status = <<0>> THEN "Ok"
                                ELSE "RunNotSuccessful")

\* a run with a timeout of zero has returned the failure of a hook that had
\* started a background process, after that process ended
C16_Witness ==
    /\ timeout = <<0>>
    /\ run_pc = "done"
    /\ bg = "ended"
    /\ hk_ret.kind = "RunNotSuccessful"
    /\ hk_ret.code = <<1>>


(***************************************************************************)
(* The commit-msg hook and the commit pipeline.                            *)
(***************************************************************************)

\* C21: a hooks_commit_msg call that finds a hook leaves the message file at
\* <git-dir>/COMMIT_EDITMSG, holding the message unless the script changed
\* it, has run the hook with that path as its only argument, and has
\* replaced msg by the content of the file, whatever the exit code of the
\* hook; a call that finds no hook leaves msg unchanged.
C21_CommitMsgReload ==
    [][hk_fn' = "hooks_commit_msg" =>
          IF file_kind(HookPaths_new(HOOK_COMMIT_MSG).hook) = "exec"
          THEN /\ hk_spawn' # <<>>
               /\ hk_spawn'[1].args = <<repo_path \o <<"COMMIT_EDITMSG">> >>
               /\ temp_file' # <<>> =>
                     /\ temp_file'[1].path = repo_path \o <<"COMMIT_EDITMSG">>
                     /\ temp_file'[1].content \in {msg, "altered"}
                     /\ msg' = temp_file'[1].content
                     /\ hk_ret'.kind \in {"Ok", "RunNotSuccessful"}
          ELSE msg' = msg /\ hk_spawn' = <<>>]_vars

\* a commit-msg hook that rewrote the message and rejected it has run: msg
\* holds the rewritten text
C21_Witness ==
    /\ hk_fn = "hooks_commit_msg"
    /\ hk_ret.kind = "RunNotSuccessful"
    /\ temp_file # <<>>
    /\ temp_file[1].content = "altered"
    /\ msg = "altered"

\* C22: once a hooks_commit_msg call has returned, the message file
\* COMMIT_EDITMSG it wrote does not exist any more, whether the hook
\* succeeded, rejected, or the call failed.
C22_TempFileRemoved ==
    (hk_fn = "hooks_commit_msg" /\ hk_spawn # <<>>) => temp_file = <<>>


\* the positions of the steps of the last commit_with_msg call that are runs
\* of hook h which ended with a non-zero exit status
C23Rejected(h) ==
    {i \in 1..Len(cm_steps) :
        cm_steps[i].step = h /\ cm_steps[i].status # <<0>>}

\* the state after a commit_with_msg call with verify on: the steps are in
\* pipeline order, a commit was made only after hooks that succeeded, and a
\* rejecting pre-commit or commit-msg hook is the last step; the call then
\* returned Aborted with an error message for that hook, unless it failed
C23Aborted ==
    (cm_call # <<>> /\ cm_call[1].verify) =>
        /\ \A i \in 1..Len(cm_steps) :
              /\ cm_steps[i].step = HOOK_PRE_COMMIT => i = 1
              /\ cm_steps[i].step = HOOK_COMMIT_MSG =>
                    \A k \in 1..(i - 1) : cm_steps[k].step = HOOK_PRE_COMMIT
        /\ \A i \in 1..Len(cm_steps) :
              cm_steps[i].step = "commit" =>
                 \A k \in 1..(i - 1) : cm_steps[k].status = <<0>>
        /\ \A h \in {HOOK_PRE_COMMIT, HOOK_COMMIT_MSG} :
              \A i \in C23Rejected(h) :
                 /\ i = Len(cm_steps)
                 /\ cm_ret \in {"Aborted", "Err"}
                 /\ cm_ret = "Aborted" =>
                       /\ Len(queue) = 1
                       /\ queue[1].hook = h
                       /\ queue[1].text # <<>>

C24_PostCommitAfterCommit ==
    \A i \in 1..Len(cm_steps) :
        cm_steps[i].step = HOOK_POST_COMMIT =>
            /\ i > 1 /\ cm_steps[i - 1].step = "commit"
            /\ i = Len(cm_steps)
            /\ history # <<>> /\ history[Len(history)] = msg
            /\ cm_ret = "CommitDone"
            /\ cm_steps[i].status # <<0>> =>
                  /\ Len(queue) = 1
                  /\ queue[1].hook = HOOK_POST_COMMIT
            /\ cm_steps[i].status = <<0>> => queue = <<>>

\* a commit was made and the post-commit hook then failed
C24_Witness ==
    /\ cm_steps # <<>>
    /\ cm_steps[Len(cm_steps)] =
          [step |-> HOOK_POST_COMMIT, status |-> <<1>>]
    /\ cm_ret = "CommitDone"
    /\ Len(history) = 1
    /\ queue # <<>>


(***************************************************************************)
(* is_continuous.                                                          *)
(***************************************************************************)

\* the commits from which c is reached by one or more parent steps
C25Descendants(c) == {d \in Revs : d # c /\ c \in reachable(d)}

\* C25: is_continuous returns true for an empty or one-element sequence
\* whatever the repository holds; for a longer one it returns true exactly
\* when the commits the topological walk from commits[0] yielded, as many
\* as the sequence is long, are the sequence; a sequence with a gap (some
\* commit lies between two neighbours and is not in the sequence), in the
\* wrong order (a commit after one of its ancestors) or longer than the
\* history reachable from commits[0] gives false.
C25_Continuous ==
    rw_ret # "none" =>
        LET n == Len(rw_commits)
            ids == {rw_commits[i] : i \in 1..n}
        IN /\ n <= 1 => rw_ret = "Ok(true)" /\ rw_walk = <<>>
           /\ (n >= 2 /\ rw_commits[1] \in Revs) =>
                 /\ rw_ret \in {"Ok(true)", "Ok(false)"}
                 /\ rw_ret = "Ok(true)" <=> rw_walk = rw_commits
                 /\ (\E i \in 1..(n - 1) :
                        \E c \in Revs \ ids :
                            /\ rw_commits[i] \in C25Descendants(c)
                            /\ rw_commits[i + 1] \in Revs
                            /\ c \in C25Descendants(rw_commits[i + 1]))
                       => rw_ret = "Ok(false)"
                 /\ (\E i, k \in 1..n :
                        /\ i < k
                        /\ rw_commits[k] \in Revs
                        /\ rw_commits[k] \in C25Descendants(rw_commits[i]))
                       => rw_ret = "Ok(false)"
                 /\ n > Cardinality(reachable(rw_commits[1]))
                       => rw_ret = "Ok(false)"

\* a sequence of three commits was found continuous
C25_Witness ==
    /\ Len(rw_commits) = 3
    /\ rw_ret = "Ok(true)"
    /\ rw_walk = rw_commits

\* C26: a sequence of two or more commits that contains a merge commit is
\* never continuous: is_continuous returns false.
C26_MergeBreaksContinuity ==
    (rw_ret # "none" /\ Len(rw_commits) >= 2 /\ rw_commits[1] \in Revs
       /\ \E i \in 1..Len(rw_commits) :
             /\ rw_commits[i] \in Revs
             /\ Cardinality(rw_parents[rw_commits[i]]) = 2)
        => rw_ret = "Ok(false)"

\* C27: the list get_status returns is sorted by path: for every two
\* adjacent items a, b of the result, a.path <= b.path as texts.
C27_SortedByPath ==
    gs_ret.kind = "Ok" =>
        \A i \in 1..(Len(gs_ret.res) - 1) :
            cmp_str(gs_ret.res[i].path, gs_ret.res[i + 1].path) # "Greater"

\* the components of a path text, split at every '/'
C27Components(s) ==
    LET cut == <<0>> \o SelectSeq([i \in 1..Len(s) |-> IF s[i] = "/" THEN i ELSE 0],
                                  LAMBDA i : i > 0) \o <<Len(s) + 1>>
    IN [j \in 1..(Len(cut) - 1) |-> SubSeq(s, cut[j] + 1, cut[j + 1] - 1)]

\* a is before b, or equal to it, in the order of paths: at the first
\* component in which they differ a has the smaller one, or a's components
\* are a prefix of b's
C27PathLe(a, b) ==
    LET x == C27Components(a)
        y == C27Components(b)
    IN \/ /\ Len(x) <= Len(y)
          /\ \A i \in 1..Len(x) : x[i] = y[i]
       \/ \E k \in 1..min(Len(x), Len(y)) :
             /\ \A i \in 1..(k - 1) : x[i] = y[i]
             /\ cmp_str(x[k], y[k]) = "Less"

\* C27 (amended): the list get_status returns holds exactly the items of the
\* chosen iteration that have a status, and is sorted in the order of
\* std::path::Path, which compares component by component: for every two
\* adjacent items a, b, Path(a.path) <= Path(b.path), and items of equal
\* paths keep the order of the iteration.
C27_SortedByComponents ==
    gs_ret.kind = "Ok" =>
        LET res == gs_ret.res
            pushed == push_items(status_iter(gs_type, gs_items))
        IN /\ \A i \in 1..(Len(res) - 1) :
                  C27PathLe(res[i].path, res[i + 1].path)
           /\ Len(res) = Len(pushed)
           /\ \A item \in Range(pushed) :
                  Cardinality({i \in 1..Len(res) : res[i] = item})
                      = Cardinality({i \in 1..Len(pushed) : pushed[i] = item})
           /\ \A item \in Range(gs_items) :
                  (item.source = "IndexWorktree" /\ gs_type = "Stage")
                      \/ (item.source = "TreeIndex" /\ gs_type = "WorkingDir")
                      \/ item.summary = <<>>
                      \/ \E i \in 1..Len(res) : res[i].path = item.path

\* get_status has returned a.b behind a/b, which the iteration had yielded
\* the other way round
C27_Witness ==
    /\ gs_ret.kind = "Ok"
    /\ Len(gs_ret.res) >= 2
    /\ \E i \in 1..(Len(gs_ret.res) - 1) :
          /\ gs_ret.res[i].path = <<"a", "/", "b">>
          /\ gs_ret.res[i + 1].path = <<"a", ".", "b">>
    /\ \E i, k \in 1..Len(gs_items) :
          /\ i < k
          /\ gs_items[i].path = <<"a", ".", "b">>
          /\ gs_items[k].path = <<"a", "/", "b">>

\* the timeout_secs of the configured helper of that name, 30 when None
C28Limit(helper_name) ==
    LET h == CHOOSE x \in Range(commit_helpers) : x.name = helper_name
    IN IF h.timeout_secs = <<>> THEN 30 ELSE h.timeout_secs[1]

\* C28: a commit helper that runs longer than its own timeout_secs (30
\* seconds when timeout_secs is None) is reported as timed out: at every
\* update() that finds the helper running with no result received and more
\* seconds elapsed than the timeout_secs of the helper that was started,
\* helper_state becomes the timeout error.
C28_OwnTimeout ==
    [][(/\ hp_polled'
        /\ helper_state.kind = "Running"
        /\ helper_receiver # <<>> /\ helper_receiver[1].result = "none"
        /\ helper_state.elapsed > C28Limit(helper_state.helper_name))
          => helper_state' = HelperError("Timeout: Helper took too long")]_vars

\* a step of the supervision loop: a poll of the hook that has not exited
C29Poll ==
    /\ run_pc = "poll"
    /\ child.alive
    /\ timer' # timer \/ run_pc' # run_pc

\* C29: the supervision loop gives up at the first poll at which the hook
\* is still running and the remaining time (timeout minus elapsed) is <= 0,
\* exactly 0 included: it returns false without sleeping again, and the hook
\* is killed and reported as TimedOut.
C29_GivesUpAtZero ==
    [][/\ (C29Poll /\ timeout[1] - timer.elapsed <= 0)
            => (run_pc' = "kill" /\ timer' = timer)
       /\ (run_pc \in {"killed", "failed"} => hk_ret.kind = "TimedOut")']_vars

\* the time slept in the first k sleeps of a loop whose timeout is far
RECURSIVE C29Sum(_)
C29Sum(k) ==
    IF k <= 0 THEN 0 ELSE C29Sum(k - 1) + (IF k * k < 50 THEN k * k ELSE 50)

\* C29 (amended): the supervision loop gives up at the first poll at which
\* the hook is still running and more time than the timeout has elapsed: it
\* then returns false without sleeping, and the run kills the process group
\* and returns TimedOut, or the error of reading output that is not UTF-8.
\* At a remaining time of exactly 0 the loop does not give up: it sleeps for
\* a duration of zero, counts the attempt and polls again.
C29_GivesUpPastTimeout ==
    [][/\ (C29Poll /\ timer.elapsed > timeout[1])
            => (run_pc' = "kill" /\ timer' = timer)
       /\ (C29Poll /\ timer.elapsed = timeout[1])
            => /\ run_pc' = "poll"
               /\ timer'.attempt = timer.attempt + 1
               /\ timer'.slept = timer.slept
       /\ (C29Poll /\ timer.elapsed < timeout[1])
            => /\ run_pc' = "poll"
               /\ timer'.attempt = timer.attempt + 1
               /\ timer'.slept > timer.slept
               /\ timer'.slept <= timeout[1]
       /\ (run_pc = "kill" /\ run_pc' # "kill")
            => /\ run_pc' \in {"killed", "failed"}
               /\ ~child'.alive /\ bg' # "running"
               /\ hk_ret'.kind = (IF run_pc' = "killed" THEN "TimedOut"
                                  ELSE "Err")
               /\ timer' = timer]_vars

\* the hook was polled with exactly no time left, the loop slept for zero
\* time and went on, and the hook was killed at a later poll
C29_Witness ==
    /\ run_pc = "killed"
    /\ hk_ret.kind = "TimedOut"
    /\ timer.slept = timeout[1]
    /\ timer.elapsed > timeout[1]
    /\ C29Sum(timer.attempt - 2) >= timeout[1]

\* the cumulative sleep after k polls, remaining time not binding
C30Total(k) ==
    IF k = 0 THEN 0
    ELSE IF k <= 8 THEN <<1, 5, 14, 30, 55, 91, 140, 190>>[k]
    ELSE 190 + 50 * (k - 8)

\* C30: the k-th sleep of timeout_with_quadratic_backoff (k from 1) lasts
\* min(k*k ms, 50 ms, remaining time); while the remaining time does not
\* bind, the cumulative sleep after 1..8 polls is 1, 5, 14, 30, 55, 91, 140
\* and 190 ms, and every further sleep lasts 50 ms.
C30_BackoffSchedule ==
    [][(run_pc = "poll" /\ timer' # timer) =>
          LET k == timer.attempt
              remaining == timeout[1] - timer.elapsed
              slept == timer'.slept - timer.slept
          IN /\ timer'.attempt = k + 1
             /\ slept <= k * k /\ slept <= 50 /\ slept <= remaining
             /\ slept \in {k * k, 50, remaining}
             /\ (k * k <= remaining /\ 50 <= remaining)
                   => timer'.slept = C30Total(k)
             /\ (k > 8 /\ 50 <= remaining) => slept = 50]_vars

\* nine sleeps were made with time to spare: 240 ms slept, the ninth 50 ms
C30_Witness ==
    /\ run_pc = "poll"
    /\ timer.attempt = 10
    /\ timer.slept = 240
    /\ timer.elapsed < timeout[1]

\* C31: for every timeout > 0, when the completion check never succeeds,
\* timeout_with_quadratic_backoff terminates and returns false; the time it
\* has slept is never more than the timeout, and the time elapsed when it
\* returns exceeds the timeout by no more than the overhead of one sleep.
C31_TerminatesWithinTimeout ==
    /\ [](timer.slept <= timeout[1])
    /\ [](timer.elapsed <= timeout[1] + MaxOverhead)
    /\ [](run_pc \in {"kill", "killed", "failed"}
            => timer.elapsed > timeout[1])
    /\ <>(run_pc \in {"kill", "killed", "failed"})

\* the loop has returned false for a timeout of 100 ms with all of the
\* timeout slept
C31_Witness ==
    /\ run_pc = "kill"
    /\ timeout = <<100>>
    /\ timer.slept = 100
    /\ child.alive

\* C32: every call of commit_with_msg, whether it commits, is aborted by a
\* hook or fails, leaves the verify flag true (a step that leaves it false
\* is a toggle_verify and nothing else); an attempt made with verify off
\* runs neither the pre-commit nor the commit-msg hook, and when it commits
\* and a post-commit hook is installed, that hook is run.
C32_VerifyOffOnce ==
    [][/\ \/ verify'
          \/ /\ verify
             /\ UNCHANGED <<history, queue, cm_call, cm_steps, cm_ret, msg,
                            temp_file>>
       /\ (cm_call # <<>> /\ ~cm_call[1].verify =>
             /\ \A i \in 1..Len(cm_steps) :
                   cm_steps[i].step \notin {HOOK_PRE_COMMIT, HOOK_COMMIT_MSG}
             /\ (cm_ret = "CommitDone"
                   /\ found(HookPaths_new(HOOK_POST_COMMIT)))
                  => cm_steps[Len(cm_steps)].step = HOOK_POST_COMMIT)']_vars

\* with all three hooks installed a commit was made with verify off: only
\* the post-commit hook ran, and the flag is on again
C32_Witness ==
    /\ cm_call # <<>> /\ ~cm_call[1].verify
    /\ verify
    /\ cm_ret = "CommitDone"
    /\ found(HookPaths_new(HOOK_PRE_COMMIT))
    /\ found(HookPaths_new(HOOK_COMMIT_MSG))
    /\ Len(cm_steps) = 2
    /\ cm_steps[2].step = HOOK_POST_COMMIT

\* C33: after a running helper has been reported as timed out, a result
\* that helper delivers later is not applied: an update() that finds the
\* helper state Error 'Timeout: Helper took too long' changes neither the
\* text of the commit message nor the helper state.
C33_TimedOutResultDropped ==
    [][(helper_state = HelperError("Timeout: Helper took too long")
          /\ hp_polled')
         => (input_text' = input_text /\ helper_state' = helper_state)]_vars

\* the threads whose channel lost its Receiver before a result was taken
C36Dropped == {n \in 1..Len(hp_threads) : hp_threads[n].rx = "dropped"}

\* C36: after a running helper is cancelled, its output is never inserted
\* into the commit message and its completion never changes the helper
\* state, whenever its thread finishes: cancelling drops the Receiver of the
\* run's channel, a dropped Receiver is never held again, no text of a
\* thread with a dropped Receiver is in the message, and the step in which
\* such a thread finishes changes nothing of the popup.
C36_CancelledResultIgnored ==
    [][/\ (helper_state.kind = "Running"
            /\ helper_state' = HelperError("Cancelled by user"))
            => /\ helper_receiver' = <<>>
               /\ helper_receiver[1].chan \in C36Dropped'
       /\ C36Dropped \subseteq C36Dropped'
       /\ \A n \in C36Dropped' :
             /\ n \notin Range(input_text')
             /\ helper_receiver' # <<>> => helper_receiver'[1].chan # n
       /\ \A n \in C36Dropped :
             hp_threads'[n].pc # hp_threads[n].pc
                => UNCHANGED <<helper_state, input_text, helper_receiver>>
      ]_vars

\* a run was cancelled, its thread finished afterwards with a message, and
\* update() was called: the message is empty and the state is still the
\* cancellation
C36_Witness ==
    /\ helper_state = HelperError("Cancelled by user")
    /\ hp_polled
    /\ Len(hp_threads) = 1
    /\ hp_threads[1] = [pc |-> "done", rx |-> "dropped"]
    /\ input_text = <<>>

\* C39: while the helper state is Running no second helper thread is
\* spawned and helper_receiver is not replaced: every step from a Running
\* state leaves the number of threads and the channel of the receiver as
\* they are, the state is never Selection or Idle afterwards, and a run
\* that goes on is the run of the same helper.
C39_SingleRun ==
    [][helper_state.kind = "Running" =>
          /\ Len(hp_threads') = Len(hp_threads)
          /\ helper_receiver # <<>>
          /\ helper_receiver' # <<>>
                => helper_receiver'[1].chan = helper_receiver[1].chan
          /\ helper_state'.kind \in {"Running", "Success", "Error"}
          /\ helper_state'.kind = "Running"
                => /\ helper_state'.helper_name = helper_state.helper_name
                   /\ helper_receiver' # <<>>
                   /\ helper_state'.elapsed >= helper_state.elapsed]_vars

\* with one helper configured, a run is going on after keys were pressed
\* during it, the helper key among them
C39_Witness ==
    /\ helper_state.kind = "Running"
    /\ helper_state.elapsed > 0
    /\ ~hp_polled
    /\ Len(commit_helpers) = 1
    /\ Len(hp_threads) = 1
    /\ helper_receiver = <<[chan |-> 1, result |-> "Ok"]>>

\* C34: hide() followed by show() preserves the content of the text input:
\* the buffer that show() builds after a hide() (the call, or the exit_popup
\* key) holds the lines the buffer held before it, whether or not get_text()
\* was called between the last edit and the hide().
C34_HideShowPreserves ==
    [][(ti_shown /\ ~ti_shown')
       => show_inner_textarea(ti_msg').lines = lines]_vars

\* what a call of get_text() returns in the current state
C40Text ==
    IF ti_msg # <<>> THEN ti_msg[1]
    ELSE IF ti_shown THEN join(lines) ELSE <<>>

\* C40: whenever the text input is visible, get_text() returns the lines of
\* the buffer joined by line feeds (a cached msg is never stale), and the
\* last get_text() call of a visible input returned exactly that unless the
\* buffer has been changed since.
C40_VisibleTextIsBuffer ==
    /\ ti_shown => C40Text = join(lines)
    /\ (ti_shown /\ ti_msg # <<>> /\ ti_ret = ti_msg) => ti_ret[1] = join(lines)

\* a visible input with two non-empty lines, edited after it was shown, and
\* a get_text() call that cached its text
C40_Witness ==
    /\ ti_shown
    /\ Len(lines) = 2 /\ lines[1] # <<>> /\ lines[2] # <<>>
    /\ cursor # <<0, 0>>
    /\ ti_msg = <<join(lines)>>
    /\ ti_ret = ti_msg

\* C35: the cache slot of AsyncStatus is coherent: a result held in current
\* was computed by a job whose fingerprint is the stored fingerprint; a
\* fetch answered with Some(status) got the result of a job with the
\* fingerprint of the call; and a worker that finds another fingerprint
\* than its own in the slot (a later request has written it) leaves the
\* slot as it is.
C35_SlotCoherent ==
    /\ [](current.val # None =>
            /\ current.val \in Spawned
            /\ st_jobs[current.val].out = current.val
            /\ st_jobs[current.val].hash = current.hash)
    /\ []((st_ret.kind = "cache" /\ st_ret.val # None) =>
            /\ st_ret.val \in Spawned
            /\ st_jobs[st_ret.val].hash = st_ret.hash)
    /\ [][\A j \in StatusJobs :
            (st_jobs[j].pc = "cur" /\ st_jobs'[j].pc = "last"
             /\ current.hash # st_jobs[j].hash) => current' = current]_vars

\* a fetch was answered from the cache with the result of a job, and a job
\* that found the fingerprint of a later request in the slot has finished
\* without storing into it
C35_Witness ==
    /\ st_ret.kind = "cache" /\ st_ret.val # None
    /\ \E j \in StatusJobs :
        /\ st_jobs[j].pc = "done" /\ st_jobs[j].out = j
        /\ st_jobs[j].hash # current.hash
        /\ current.val # j

\* the hook cannot go on: the next write of its script is to a pipe that is
\* full, and the supervision loop does not read the pipes
C37Blocked ==
    /\ child.alive
    /\ child.todo # <<>>
    /\ Len(pipes[Head(child.todo)]) >= PipeCap

\* C37: with a non-zero timeout a hook whose run without a timeout finishes
\* in less than the timeout is never given up, killed and reported as
\* TimedOut.  A hook whose next write waits for a reader is such a hook at
\* the moment it is given up: it has spent the time waiting for the
\* supervisor, and without a timeout wait_with_output reads its output and
\* it goes on at once.  So the loop never gives up a hook in that state.
C37_FastHookNotKilled ==
    [][(run_pc = "poll" /\ run_pc' = "kill") => ~C37Blocked]_vars

\* the directories find_hook searches, in its order, and the hook files of
\* a call in them
C38Dirs ==
    <<"hooks">> \o (IF other_paths = <<>> THEN <<>> ELSE <<"e1", "e2">>)
C38At(i) == repo_path \o <<C38Dirs[i]>>
\* the i-th directory is the first in which the hook file exists
C38First(i) ==
    /\ fs[C38At(i)] # "missing"
    /\ \A k \in 1..(i - 1) : fs[C38At(k)] = "missing"

\* C38 (as stated): with core.hooksPath unset, a call finds and runs the
\* hook whenever one of the searched locations holds an executable file
\* for it, whatever the earlier locations hold.
C38_ExecutableAnywhereRuns ==
    (hooks_path = <<>> /\ hk_fn # "none"
     /\ \E i \in 1..Len(C38Dirs) : fs[C38At(i)] = "exec")
        => (hk_spawn # <<>> /\ hk_ret # NoHookFound)

\* C38 (amended): with core.hooksPath unset, a call finds and runs the hook
\* exactly when the first searched location in which the file exists holds
\* an executable file, and it runs that file: locations where the file is
\* missing are passed over, but a file that exists without being executable
\* ends the search, and the outcome is NoHookFound even when a later
\* location holds an executable file.
C38_FirstExistingDecides ==
    (hooks_path = <<>> /\ hk_fn # "none") =>
        /\ (hk_spawn # <<>> /\ hk_ret # NoHookFound)
              <=> \E i \in 1..Len(C38Dirs) :
                      C38First(i) /\ fs[C38At(i)] = "exec"
        /\ \A i \in 1..Len(C38Dirs) :
              (C38First(i) /\ fs[C38At(i)] = "exec") =>
                  hk_spawn[1].program = C38At(i) \o <<hook_name_of(hk_fn)>>
        /\ (\E i \in 1..Len(C38Dirs) :
                  C38First(i) /\ fs[C38At(i)] = "plain")
              => (hk_ret = NoHookFound /\ hk_spawn = <<>>)

\* a call returned NoHookFound: the hook is missing in <git-dir>/hooks, not
\* executable in the first extra path and executable in the second
C38_Witness ==
    /\ hooks_path = <<>>
    /\ other_paths = <<"e1/", "e2">>
    /\ fs[repo_path \o <<"hooks">>] = "missing"
    /\ fs[repo_path \o <<"e1">>] = "plain"
    /\ fs[repo_path \o <<"e2">>] = "exec"
    /\ hk_fn = "hooks_pre_commit"
    /\ hk_ret = NoHookFound
    /\ hk_spawn = <<>>

====
